---------------------------- MODULE Spec2Model ----------------------------
(***************************************************************************)
(* SmartCFO AI tools: the preview/confirm tool protocol over the datastore *)
(* (income, expenses, clients, vendors, categories, invoices, recurring    *)
(* invoices, templates, projects) and the voice function dispatcher; the   *)
(* resolvers; the PCM playback processor; the voice client's conversation  *)
(* and recorder life cycles.  `scope` selects the part a behaviour runs.   *)
(*                                                                         *)
(* Conventions.  Row ids are positive naturals, 0 is null/undefined.       *)
(* Optional strings use "none" for undefined.  Optional numbers are sets:  *)
(* {} is undefined, {v} is the value v.  Names are sequences of one-letter *)
(* strings so that the string functions of the code can be computed.       *)
(* Every tool is an operator from (datastore, input, failing write) to a   *)
(* result record; `fail` is the index of the write statement the datastore *)
(* rejects (0: none).  Result fields: status, db (the datastore after the  *)
(* call), reads / writes (statements issued), touched (owners of the rows  *)
(* the call read into its result, wrote, or linked by reference).          *)
(***************************************************************************)
EXTENDS Integers, Sequences, FiniteSets, TLC

VARIABLES db, last, ops, scope, player, port, obs, vc, rec, calc, shown,
          flight, fc

vars == <<db, last, ops, scope, player, port, obs, vc, rec, calc, shown,
         flight, fc>>

\* The playback processor, the messages in flight to it, and what an
\* observer of its port and output has seen.
playback == <<player, port, obs>>

\* The two voice components of the client.
voiceClient == <<vc, rec>>

\* Budget of calls that change the datastore in one behaviour.
MaxOps == 2

Users == {"u1", "u2"}

\* team_members rows (status active): u2 works for team owner t1.
TeamMembers == {[user_id |-> "u2", team_id |-> "t1", status |-> "active"]}

Max2(a, b) == IF a >= b THEN a ELSE b

Min2(a, b) == IF a <= b THEN a ELSE b

\* The one element of a singleton set.
The(S) == CHOOSE x \in S : TRUE

RowsById(table, id) == {r \in table : r.id = id}

NextId(table) == 1 + Cardinality(table)

\* `update ... eq(id)` : replace the row with that id by f(row).
UpdateById(table, id, new) == {r \in table : r.id # id} \cup {new}

---------------------------------------------------------------------------
(* String helpers of income.ts (the same functions are repeated in        *)
(* clients.ts, vendors.ts and projects.ts).                                *)

toLowerCase(s) ==
    [i \in 1..Len(s) |->
        CASE s[i] = "A" -> "a" [] s[i] = "B" -> "b" [] s[i] = "C" -> "c"
          [] s[i] = "D" -> "d" [] OTHER -> s[i]]

\* String.prototype.includes: s occurs in t as a contiguous substring.
includes(t, s) ==
    \E k \in 0..Len(t) :
        /\ k + Len(s) <= Len(t)
        /\ \A i \in 1..Len(s) : t[k + i] = s[i]

\* The table filled with the substitution neighbour left out of the minimum.
RECURSIVE dp_NoSubstitution(_, _, _, _)
dp_NoSubstitution(s1, s2, i, j) ==
    IF j = 0 THEN i
    ELSE IF i = 0 THEN j
    ELSE IF s1[i] = s2[j] THEN dp_NoSubstitution(s1, s2, i - 1, j - 1)
    ELSE 1 + Min2(dp_NoSubstitution(s1, s2, i - 1, j),
                  dp_NoSubstitution(s1, s2, i, j - 1))

\* dp[i][j] of levenshteinDistance, by the recurrence that fills the table.
RECURSIVE dp(_, _, _, _)
dp(s1, s2, i, j) ==
    IF j = 0 THEN i
    ELSE IF i = 0 THEN j
    ELSE IF s1[i] = s2[j] THEN dp(s1, s2, i - 1, j - 1)
    ELSE 1 + Min2(dp(s1, s2, i - 1, j),
                  Min2(dp(s1, s2, i, j - 1), dp(s1, s2, i - 1, j - 1)))

levenshteinDistance(str1, str2) ==
    LET s1 == toLowerCase(str1)
        s2 == toLowerCase(str2)
    IN  dp(s1, s2, Len(s1), Len(s2))

\* Math.round((1 - distance / maxLength) * 100), half rounded up.
RoundPercent(distance, maxLength) ==
    (200 * (maxLength - distance) + maxLength) \div (2 * maxLength)

\* The score without the early return for equal strings.
calculateLevenshteinScore_NoEqualReturn(search, target) ==
    LET s == toLowerCase(search)
        t == toLowerCase(target)
        maxLength == Max2(Len(s), Len(t))
    IN  IF includes(t, s) \/ includes(s, t) THEN 90
        ELSE IF maxLength = 0 THEN 100
        ELSE Max2(0, RoundPercent(levenshteinDistance(s, t), maxLength))

\* The score with the distance computed before containment is looked at.
calculateLevenshteinScore_DistanceOnly(search, target) ==
    LET s == toLowerCase(search)
        t == toLowerCase(target)
        maxLength == Max2(Len(s), Len(t))
    IN  IF s = t THEN 100
        ELSE IF maxLength = 0 THEN 100
        ELSE Max2(0, RoundPercent(levenshteinDistance(s, t), maxLength))

calculateLevenshteinScore(search, target) ==
    LET s == toLowerCase(search)
        t == toLowerCase(target)
        distance == levenshteinDistance(s, t)
        maxLength == Max2(Len(s), Len(t))
    IN  IF s = t THEN 100
        ELSE IF includes(t, s) \/ includes(s, t) THEN 90
        ELSE IF maxLength = 0 THEN 100
        ELSE Max2(0, RoundPercent(distance, maxLength))

---------------------------------------------------------------------------
(* The datastore after construction: a few rows per table, so that every   *)
(* lookup of the tools has a hit, a miss, a foreign row and a soft-deleted *)
(* row to find.                                                            *)

SeedClients ==
    { [id |-> 1, user_id |-> "u1", name |-> <<"A", "b", "c">>,
        email |-> "e1", deleted |-> FALSE],
      [id |-> 2, user_id |-> "u2", name |-> <<"d", "d">>,
        email |-> "none", deleted |-> FALSE],
      [id |-> 3, user_id |-> "u1", name |-> <<"c", "c", "c">>,
        email |-> "none", deleted |-> TRUE] }

SeedCategories ==
    { [id |-> 1, user_id |-> "u1", type |-> "income", name |-> <<"a", "b">>,
        color |-> "k1", deleted |-> FALSE],
      [id |-> 2, user_id |-> "u2", type |-> "expense", name |-> <<"c", "d">>,
        color |-> "none", deleted |-> FALSE],
      [id |-> 3, user_id |-> "u1", type |-> "expense", name |-> <<"b", "c">>,
        color |-> "none", deleted |-> FALSE] }

SeedVendors ==
    { [id |-> 1, user_id |-> "u1", name |-> <<"a", "b">>, deleted |-> FALSE],
      [id |-> 2, user_id |-> "u2", name |-> <<"c", "d">>, deleted |-> FALSE] }

SeedInvoiceSettings ==
    { [user_id |-> "u1", default_tax_rate |-> 20, next_number |-> 7],
      [user_id |-> "t1", default_tax_rate |-> 10, next_number |-> 3] }

SeedIncome ==
    { [id |-> 1, user_id |-> "u1", amount |-> 100, base_amount |-> 100,
       tax_rate |-> 20, tax_amount |-> 20, description |-> "d1",
       client_id |-> 1, category_id |-> 1, deleted |-> FALSE] }

SeedExpenses ==
    { [id |-> 1, user_id |-> "u1", amount |-> 100, base_amount |-> 100,
       tax_rate |-> 20, tax_amount |-> 20, description |-> "d1",
       vendor_id |-> 1, category_id |-> 3, deleted |-> FALSE] }

\* A draft invoice and a paid one for u1.
SeedInvoices ==
    { [id |-> 1, user_id |-> "u1", invoice_number |-> 5, client_id |-> 1,
       status |-> "draft", subtotal |-> 100, tax_amount |-> 20, total |-> 120,
       balance_due |-> 120, amount_paid |-> 0, due_date |-> "t1",
       notes |-> "n1", deleted |-> FALSE],
      [id |-> 2, user_id |-> "u1", invoice_number |-> 6, client_id |-> 1,
       status |-> "paid", subtotal |-> 100, tax_amount |-> 20, total |-> 120,
       balance_due |-> 0, amount_paid |-> 120, due_date |-> "t1",
       notes |-> "n1", deleted |-> FALSE] }

SeedInvoiceItems ==
    { [invoice_id |-> i, n |-> 1, net_amount |-> 100, tax_amount |-> 20] :
        i \in {1, 2} }

SeedRecurring ==
    { [id |-> 1, user_id |-> "u1", invoice_id |-> 1, client_id |-> 1,
       frequency |-> "monthly", next_date |-> "t1", end_date |-> "none",
       is_active |-> TRUE] }

\* A template saved from invoice 1.
SeedTemplates ==
    { [id |-> 1, user_id |-> "u1", name |-> "m1",
       items |-> {[n |-> 1, net_amount |-> 100, tax_amount |-> 20]},
       subtotal |-> 100, tax_amount |-> 20, total |-> 120, notes |-> "n1"] }

SeedProjects ==
    { [id |-> 1, user_id |-> "u1", client_id |-> 1, name |-> <<"a", "b">>,
       start_date |-> 1, end_date |-> 2, updated_at |-> 0, deleted |-> FALSE] }

\* Children of project 1: a milestone, a goal, a time entry and a note of
\* u1.  deleted_at is 0 (null) or the time of the soft delete.
SeedProjectChildren ==
    { [id |-> 1, user_id |-> "u1", project_id |-> 1, deleted_at |-> 0] }

\* The milestone of project 1, as createMilestone inserts it.
SeedMilestones ==
    { [id |-> 1, user_id |-> "u1", project_id |-> 1, deleted_at |-> 0,
       name |-> <<"m">>, status |-> "pending", completion_date |-> 0,
       updated_at |-> 0] }

SeedDb ==
    [ clients |-> SeedClients,
      categories |-> SeedCategories,
      vendors |-> SeedVendors,
      invoice_settings |-> SeedInvoiceSettings,
      income |-> SeedIncome,
      expenses |-> SeedExpenses,
      invoices |-> SeedInvoices,
      invoice_items |-> SeedInvoiceItems,
      invoice_payments |-> {},
      recurring_invoices |-> SeedRecurring,
      invoice_templates |-> SeedTemplates,
      projects |-> SeedProjects,
      project_milestones |-> SeedMilestones,
      project_goals |-> SeedProjectChildren,
      project_time_entries |-> SeedProjectChildren,
      project_notes |-> SeedProjectChildren ]

\* The datastore with u1's income and expense records soft-deleted (by the
\* application, outside the tools).
TrashedDb ==
    [SeedDb EXCEPT !.income = {[r EXCEPT !.deleted = TRUE] : r \in @},
                   !.expenses = {[r EXCEPT !.deleted = TRUE] : r \in @}]

Owners(rows) == {r.user_id : r \in rows}

\* invoice_settings.default_tax_rate, `|| 0` when the row or value is missing.
DefaultTaxRateOf(d, owner) ==
    LET rows == {s \in d.invoice_settings : s.user_id = owner}
    IN  IF rows = {} THEN 0 ELSE The(rows).default_tax_rate

---------------------------------------------------------------------------
(* income.ts                                                               *)

\* Step 2 of addIncome: exact match, else the best suggestion if >= 85.
MatchClientByName(d, userId, clientName) ==
    LET clients == {c \in d.clients : c.user_id = userId /\ ~c.deleted}
        exact == {c \in clients : toLowerCase(c.name) = toLowerCase(clientName)}
        suggestions == {c \in clients : calculateLevenshteinScore(clientName, c.name) >= 50}
        best == {c \in suggestions :
                    \A o \in suggestions :
                        calculateLevenshteinScore(clientName, o.name)
                            <= calculateLevenshteinScore(clientName, c.name)}
    IN  IF clientName = <<>> \/ clients = {} THEN {}
        ELSE IF exact # {} THEN {CHOOSE c \in exact : TRUE}
        ELSE IF best # {} /\ calculateLevenshteinScore(clientName, (CHOOSE c \in best : TRUE).name) >= 85
             THEN {CHOOSE c \in best : TRUE}
        ELSE {}

\* Step 3 of addIncome / addExpense-by-name: ilike %name%, exact || first.
MatchCategoryByName(d, userId, type, categoryName) ==
    LET categories == {c \in d.categories :
                          /\ c.user_id = userId /\ c.type = type /\ ~c.deleted
                          /\ includes(toLowerCase(c.name), toLowerCase(categoryName))}
        exact == {c \in categories : toLowerCase(c.name) = toLowerCase(categoryName)}
    IN  IF categoryName = <<>> \/ categories = {} THEN {}
        ELSE IF exact # {} THEN {CHOOSE c \in exact : TRUE}
        ELSE {CHOOSE c \in categories : TRUE}

IdOrNull(rows) == IF rows = {} THEN 0 ELSE The(rows).id

TaxAmount(amount, rate) == (amount * rate) \div 100

\* The generated column total_with_tax of the income and expenses tables.
TotalWithTax(r) == r.amount + r.tax_amount

addIncomePreviewMode_Never(in) == FALSE

\* if (!confirmed): the preview branch of addIncome.
addIncomePreviewMode(in) == ~in.confirmed

addIncome(d, in, fail) ==
    LET defaultTaxRate == IF in.taxRate # {} THEN The(in.taxRate)
                          ELSE DefaultTaxRateOf(d, in.userId)
        matchedClient == MatchClientByName(d, in.userId, in.clientName)
        matchedCategory == MatchCategoryByName(d, in.userId, "income", in.categoryName)
        taxAmount == TaxAmount(in.amount, defaultTaxRate)
        reads == 2 + (IF in.clientName # <<>> THEN 1 ELSE 0)
                   + (IF in.categoryName # <<>> THEN 1 ELSE 0)
        touched == {in.userId} \cup Owners(matchedClient) \cup Owners(matchedCategory)
        incomeRecord == [id |-> NextId(d.income), user_id |-> in.userId,
                         amount |-> in.amount, base_amount |-> in.amount,
                         tax_rate |-> defaultTaxRate, tax_amount |-> taxAmount,
                         description |-> in.description,
                         client_id |-> IdOrNull(matchedClient),
                         category_id |-> IdOrNull(matchedCategory),
                         deleted |-> FALSE]
    IN  IF addIncomePreviewMode(in)
        THEN [status |-> "preview", db |-> d, reads |-> reads, writes |-> 0,
              touched |-> touched]
        ELSE IF fail = 1
        THEN [status |-> "error", db |-> d, reads |-> reads, writes |-> 1,
              touched |-> touched]
        ELSE [status |-> "saved",
              db |-> [d EXCEPT !.income = @ \cup {incomeRecord}],
              reads |-> reads, writes |-> 1, touched |-> touched]

\* The `changes` object of updateIncome, as the set of its keys.
updateIncomeChanges(existing, in) ==
    (IF in.amount # {} /\ The(in.amount) # existing.amount
        THEN {"amount", "base_amount"} ELSE {})
    \cup (IF in.description # "none" /\ in.description # existing.description
        THEN {"description"} ELSE {})
    \cup (IF in.clientId # 0 /\ in.clientId # existing.client_id
        THEN {"client_id"} ELSE {})
    \cup (IF in.categoryId # 0 /\ in.categoryId # existing.category_id
        THEN {"category_id"} ELSE {})

\* An update that writes every input column, the absent ones as null.
updateIncomeApply_WritesAllInputs(existing, in, changes) ==
    [existing EXCEPT
        !.amount = IF in.amount # {} THEN The(in.amount) ELSE @,
        !.base_amount = IF in.amount # {} THEN The(in.amount) ELSE @,
        !.description = in.description,
        !.client_id = in.clientId,
        !.category_id = in.categoryId]

\* supabase .update(changes): the columns named in `changes` take the inputs.
updateIncomeApply(existing, in, changes) ==
    [existing EXCEPT
        !.amount = IF "amount" \in changes THEN The(in.amount) ELSE @,
        !.base_amount = IF "base_amount" \in changes THEN The(in.amount) ELSE @,
        !.description = IF "description" \in changes THEN in.description ELSE @,
        !.client_id = IF "client_id" \in changes THEN in.clientId ELSE @,
        !.category_id = IF "category_id" \in changes THEN in.categoryId ELSE @]

updateIncome(d, in, fail) ==
    LET found == {r \in d.income : r.id = in.incomeId /\ r.user_id = in.userId}
        existing == The(found)
        changes == updateIncomeChanges(existing, in)
        \* the joined clients(id, name) / categories(id, name) of the row
        joined == RowsById(d.clients, existing.client_id)
                    \cup RowsById(d.categories, existing.category_id)
        \* .from("clients").select("name").eq("id", clientId).single()
        newClient == IF "client_id" \in changes
                     THEN RowsById(d.clients, in.clientId) ELSE {}
        newCategory == IF "category_id" \in changes
                       THEN RowsById(d.categories, in.categoryId) ELSE {}
        reads == 1 + (IF "client_id" \in changes THEN 1 ELSE 0)
                   + (IF "category_id" \in changes THEN 1 ELSE 0)
        touched == Owners(found) \cup Owners(joined)
                     \cup Owners(newClient) \cup Owners(newCategory)
    IN  IF found = {}
        THEN [status |-> "not_found", db |-> d, reads |-> 1, writes |-> 0,
              touched |-> {}]
        ELSE IF changes = {}
        THEN [status |-> "no_changes", db |-> d, reads |-> reads, writes |-> 0,
              touched |-> touched]
        ELSE IF ~in.confirmed
        THEN [status |-> "preview", db |-> d, reads |-> reads, writes |-> 0,
              touched |-> touched]
        ELSE IF fail = 1
        THEN [status |-> "error", db |-> d, reads |-> reads, writes |-> 1,
              touched |-> touched]
        ELSE [status |-> "success",
              db |-> [d EXCEPT !.income =
                         UpdateById(@, in.incomeId,
                                    updateIncomeApply(existing, in, changes))],
              reads |-> reads, writes |-> 1, touched |-> touched]

---------------------------------------------------------------------------
(* expenses.ts                                                             *)

\* .eq("id", id).eq("user_id", userId).is("deleted_at", null).single()
OwnLiveById(table, id, userId) ==
    {r \in table : r.id = id /\ r.user_id = userId /\ ~r.deleted}

addExpense(d, in, fail) ==
    LET defaultTaxRate == IF in.taxRate # {} THEN The(in.taxRate)
                          ELSE DefaultTaxRateOf(d, in.userId)
        vendorInfo == IF in.vendorId # 0
                      THEN OwnLiveById(d.vendors, in.vendorId, in.userId) ELSE {}
        categoryInfo == IF in.categoryId # 0
                        THEN OwnLiveById(d.categories, in.categoryId, in.userId) ELSE {}
        taxAmount == TaxAmount(in.amount, defaultTaxRate)
        reads == 2 + (IF in.vendorId # 0 THEN 1 ELSE 0)
                   + (IF in.categoryId # 0 THEN 1 ELSE 0)
        touched == {in.userId} \cup Owners(vendorInfo) \cup Owners(categoryInfo)
        expenseRecord == [id |-> NextId(d.expenses), user_id |-> in.userId,
                          amount |-> in.amount, base_amount |-> in.amount,
                          tax_rate |-> defaultTaxRate, tax_amount |-> taxAmount,
                          description |-> in.description,
                          vendor_id |-> IdOrNull(vendorInfo),
                          category_id |-> IdOrNull(categoryInfo),
                          deleted |-> FALSE]
    IN  IF ~in.confirmed
        THEN [status |-> "preview", db |-> d, reads |-> reads, writes |-> 0,
              touched |-> touched]
        ELSE IF fail = 1
        THEN [status |-> "error", db |-> d, reads |-> reads, writes |-> 1,
              touched |-> touched]
        ELSE [status |-> "saved",
              db |-> [d EXCEPT !.expenses = @ \cup {expenseRecord}],
              reads |-> reads, writes |-> 1, touched |-> touched]

updateExpenseChanges(existing, in) ==
    (IF in.amount # {} /\ The(in.amount) # existing.amount
        THEN {"amount", "base_amount"} ELSE {})
    \cup (IF in.description # "none" /\ in.description # existing.description
        THEN {"description"} ELSE {})
    \cup (IF in.vendorId # 0 /\ in.vendorId # existing.vendor_id
        THEN {"vendor_id"} ELSE {})
    \cup (IF in.categoryId # 0 /\ in.categoryId # existing.category_id
        THEN {"category_id"} ELSE {})

updateExpenseApply(existing, in, changes) ==
    [existing EXCEPT
        !.amount = IF "amount" \in changes THEN The(in.amount) ELSE @,
        !.base_amount = IF "base_amount" \in changes THEN The(in.amount) ELSE @,
        !.description = IF "description" \in changes THEN in.description ELSE @,
        !.vendor_id = IF "vendor_id" \in changes THEN in.vendorId ELSE @,
        !.category_id = IF "category_id" \in changes THEN in.categoryId ELSE @]

updateExpense(d, in, fail) ==
    LET found == {r \in d.expenses : r.id = in.expenseId /\ r.user_id = in.userId}
        existing == The(found)
        changes == updateExpenseChanges(existing, in)
        joined == RowsById(d.vendors, existing.vendor_id)
                    \cup RowsById(d.categories, existing.category_id)
        newVendor == IF "vendor_id" \in changes
                     THEN RowsById(d.vendors, in.vendorId) ELSE {}
        newCategory == IF "category_id" \in changes
                       THEN RowsById(d.categories, in.categoryId) ELSE {}
        reads == 1 + (IF "vendor_id" \in changes THEN 1 ELSE 0)
                   + (IF "category_id" \in changes THEN 1 ELSE 0)
        touched == Owners(found) \cup Owners(joined)
                     \cup Owners(newVendor) \cup Owners(newCategory)
    IN  IF found = {}
        THEN [status |-> "not_found", db |-> d, reads |-> 1, writes |-> 0,
              touched |-> {}]
        ELSE IF changes = {}
        THEN [status |-> "no_changes", db |-> d, reads |-> reads, writes |-> 0,
              touched |-> touched]
        ELSE IF ~in.confirmed
        THEN [status |-> "preview", db |-> d, reads |-> reads, writes |-> 0,
              touched |-> touched]
        ELSE IF fail = 1
        THEN [status |-> "error", db |-> d, reads |-> reads, writes |-> 1,
              touched |-> touched]
        ELSE [status |-> "success",
              db |-> [d EXCEPT !.expenses =
                         UpdateById(@, in.expenseId,
                                    updateExpenseApply(existing, in, changes))],
              reads |-> reads, writes |-> 1, touched |-> touched]

---------------------------------------------------------------------------
(* invoices.ts                                                             *)

getEffectiveUserId(userId) ==
    LET teamMember == {m \in TeamMembers : m.user_id = userId /\ m.status = "active"}
    IN  IF teamMember # {} THEN The(teamMember).team_id ELSE userId

\* rpc("get_next_invoice_number"): reads the owner's counter.  The tools
\* advance next_number themselves after a confirmed insert, so the function
\* is taken to be a pure read.
get_next_invoice_number(d, owner) ==
    LET rows == {s \in d.invoice_settings : s.user_id = owner}
    IN  IF rows = {} THEN 1 ELSE The(rows).next_number

\* calculatedItems: net, tax and gross amount of every line item.
calculatedItems(items, defaultTaxRate) ==
    [i \in 1..Len(items) |->
        LET netAmount == items[i].quantity * items[i].rate
            itemTaxRate == IF items[i].taxRate # {} THEN The(items[i].taxRate)
                           ELSE defaultTaxRate
            taxAmount == TaxAmount(netAmount, itemTaxRate)
        IN  [n |-> i, net_amount |-> netAmount, tax_rate |-> itemTaxRate,
             tax_amount |-> taxAmount, gross_amount |-> netAmount + taxAmount]]

RECURSIVE SumField(_, _)
\* items.reduce((sum, item) => sum + item[field], 0)
SumField(items, field) ==
    IF items = <<>> THEN 0
    ELSE items[1][field] + SumField(Tail(items), field)

\* After a confirmed insert: next_number := (next_number || 1) + 1.
AdvanceNextNumber(settings, owner) ==
    {IF s.user_id = owner
        THEN [s EXCEPT !.next_number = (IF @ = 0 THEN 1 ELSE @) + 1]
        ELSE s : s \in settings}

createInvoice(d, in, fail) ==
    LET effectiveUserId == getEffectiveUserId(in.userId)
        defaultTaxRate == DefaultTaxRateOf(d, effectiveUserId)
        invoiceNumber == get_next_invoice_number(d, effectiveUserId)
        items == calculatedItems(in.items, defaultTaxRate)
        subtotal == SumField(items, "net_amount")
        totalTax == SumField(items, "tax_amount")
        total == subtotal + totalTax
        client == RowsById(d.clients, in.clientId)
        touched == {effectiveUserId} \cup Owners(client)
        newId == NextId(d.invoices)
        newInvoice == [id |-> newId, user_id |-> effectiveUserId,
                       invoice_number |-> invoiceNumber,
                       client_id |-> in.clientId, status |-> "draft",
                       subtotal |-> subtotal, tax_amount |-> totalTax,
                       total |-> total,
                       balance_due |-> total,
                       amount_paid |-> 0, due_date |-> in.dueDate,
                       notes |-> in.notes, deleted |-> FALSE]
        itemsToInsert == {[invoice_id |-> newId, n |-> items[i].n,
                           net_amount |-> items[i].net_amount,
                           tax_amount |-> items[i].tax_amount] : i \in 1..Len(items)}
        hasSettings == \E st \in d.invoice_settings : st.user_id = effectiveUserId
        recurring == in.makeRecurring /\ in.frequency # "none"
        newRecurring == [id |-> NextId(d.recurring_invoices),
                         user_id |-> effectiveUserId, invoice_id |-> newId,
                         client_id |-> in.clientId, frequency |-> in.frequency,
                         next_date |-> "t1", end_date |-> "none",
                         is_active |-> TRUE]
        writes == 2 + (IF hasSettings THEN 1 ELSE 0) + (IF recurring THEN 1 ELSE 0)
    IN  IF ~in.confirmed
        THEN [status |-> "preview", db |-> d, reads |-> 5, writes |-> 0,
              touched |-> touched]
        ELSE IF fail = 1
        THEN [status |-> "error", db |-> d, reads |-> 5, writes |-> 1,
              touched |-> touched]
        ELSE [status |-> "success",
              db |-> [d EXCEPT
                        !.invoices = @ \cup {newInvoice},
                        !.invoice_items = IF fail = 2 THEN @ ELSE @ \cup itemsToInsert,
                        !.invoice_settings =
                            IF fail = 3 THEN @ ELSE AdvanceNextNumber(@, effectiveUserId),
                        !.recurring_invoices =
                            IF recurring /\ fail # 4 THEN @ \cup {newRecurring} ELSE @],
              reads |-> 6, writes |-> writes, touched |-> touched]

\* The invoice query of markInvoicePaid / updateInvoice: by id, else by
\* number, scoped to the effective owner and live rows; .single().
FindInvoice(d, owner, invoiceId, invoiceNumber) ==
    LET rows == {r \in d.invoices :
                    /\ r.user_id = owner /\ ~r.deleted
                    /\ IF invoiceId # 0 THEN r.id = invoiceId
                       ELSE r.invoice_number = invoiceNumber}
    IN  IF Cardinality(rows) = 1 THEN rows ELSE {}

invoiceIsPaid_Never(invoice) == FALSE

\* invoice.status === "paid"
invoiceIsPaid(invoice) == invoice.status = "paid"

markInvoicePaidAmountPaid_OnlyPayment(invoice, currentBalance, amount) == amount

\* amount_paid: (invoice.total - currentBalance) + amount
markInvoicePaidAmountPaid(invoice, currentBalance, amount) ==
    (invoice.total - currentBalance) + amount

markInvoicePaid(d, in, fail) ==
    LET effectiveUserId == getEffectiveUserId(in.userId)
        found == FindInvoice(d, effectiveUserId, in.invoiceId, in.invoiceNumber)
        invoice == The(found)
        currentBalance == IF invoice.balance_due # 0 THEN invoice.balance_due
                          ELSE invoice.total
        amount == IF in.paymentAmount # {} /\ The(in.paymentAmount) # 0
                  THEN The(in.paymentAmount) ELSE currentBalance
        newBalance == currentBalance - amount
        newStatus == IF newBalance <= 0 THEN "paid" ELSE "partially_paid"
        touched == Owners(found) \cup Owners(RowsById(d.clients, invoice.client_id))
        payment == [id |-> NextId(d.invoice_payments), invoice_id |-> invoice.id,
                    user_id |-> effectiveUserId, amount |-> amount]
        updated == [invoice EXCEPT
                       !.status = newStatus,
                       !.amount_paid = markInvoicePaidAmountPaid(invoice, currentBalance, amount),
                       !.balance_due = Max2(0, newBalance)]
    IN  IF in.invoiceId = 0 /\ in.invoiceNumber = 0
        THEN [status |-> "error", db |-> d, reads |-> 1, writes |-> 0, touched |-> {}]
        ELSE IF found = {}
        THEN [status |-> "not_found", db |-> d, reads |-> 2, writes |-> 0, touched |-> {}]
        ELSE IF invoiceIsPaid(invoice)
        THEN [status |-> "already_paid", db |-> d, reads |-> 2, writes |-> 0,
              touched |-> touched]
        ELSE IF amount > currentBalance
        THEN [status |-> "error", db |-> d, reads |-> 2, writes |-> 0,
              touched |-> touched]
        ELSE IF ~in.confirmed
        THEN [status |-> "preview", db |-> d, reads |-> 2, writes |-> 0,
              touched |-> touched]
        ELSE IF fail = 1
        THEN [status |-> "error", db |-> d, reads |-> 2, writes |-> 1,
              touched |-> touched]
        ELSE [status |-> "success",
              db |-> [d EXCEPT
                        !.invoice_payments = @ \cup {payment},
                        !.invoices = IF fail = 2 THEN @
                                     ELSE UpdateById(@, invoice.id, updated)],
              reads |-> 2, writes |-> 2, touched |-> touched]

updateInvoiceChanges(existing, in) ==
    (IF in.dueDate # "none" /\ in.dueDate # existing.due_date
        THEN {"due_date"} ELSE {})
    \cup (IF in.notes # "none" /\ in.notes # existing.notes
        THEN {"notes"} ELSE {})

updateInvoice(d, in, fail) ==
    LET effectiveUserId == getEffectiveUserId(in.userId)
        found == FindInvoice(d, effectiveUserId, in.invoiceId, in.invoiceNumber)
        existing == The(found)
        changes == updateInvoiceChanges(existing, in)
        updated == [existing EXCEPT
                       !.due_date = IF "due_date" \in changes THEN in.dueDate ELSE @,
                       !.notes = IF "notes" \in changes THEN in.notes ELSE @]
        touched == Owners(found)
    IN  IF in.invoiceId = 0 /\ in.invoiceNumber = 0
        THEN [status |-> "error", db |-> d, reads |-> 1, writes |-> 0, touched |-> {}]
        ELSE IF found = {}
        THEN [status |-> "not_found", db |-> d, reads |-> 2, writes |-> 0, touched |-> {}]
        ELSE IF invoiceIsPaid(existing)
        THEN [status |-> "blocked", db |-> d, reads |-> 2, writes |-> 0,
              touched |-> touched]
        ELSE IF changes = {}
        THEN [status |-> "no_changes", db |-> d, reads |-> 2, writes |-> 0,
              touched |-> touched]
        ELSE IF ~in.confirmed
        THEN [status |-> "preview", db |-> d, reads |-> 2, writes |-> 0,
              touched |-> touched]
        ELSE IF fail = 1
        THEN [status |-> "error", db |-> d, reads |-> 2, writes |-> 1,
              touched |-> touched]
        ELSE [status |-> "success",
              db |-> [d EXCEPT !.invoices = UpdateById(@, existing.id, updated)],
              reads |-> 2, writes |-> 1, touched |-> touched]

\* The recurring_invoices query of the recurring tools: by id, scoped to the
\* effective owner; the table has no deleted_at filter.
FindRecurring(d, owner, recurringId) ==
    {r \in d.recurring_invoices : r.id = recurringId /\ r.user_id = owner}

toggleRecurring(d, in, fail) ==
    LET effectiveUserId == getEffectiveUserId(in.userId)
        found == FindRecurring(d, effectiveUserId, in.recurringId)
        recurring == The(found)
        touched == Owners(found) \cup Owners(RowsById(d.clients, recurring.client_id))
    IN  IF found = {}
        THEN [status |-> "not_found", db |-> d, reads |-> 2, writes |-> 0, touched |-> {}]
        ELSE IF ~in.confirmed
        THEN [status |-> "preview", db |-> d, reads |-> 2, writes |-> 0,
              touched |-> touched]
        ELSE IF fail = 1
        THEN [status |-> "error", db |-> d, reads |-> 2, writes |-> 1,
              touched |-> touched]
        ELSE [status |-> "success",
              db |-> [d EXCEPT !.recurring_invoices =
                         UpdateById(@, recurring.id,
                                    [recurring EXCEPT !.is_active = in.isActive])],
              reads |-> 2, writes |-> 1, touched |-> touched]

\* The `changes` object of updateRecurring.  The row is read with select("*")
\* and carries next_date, so existing.next_invoice_date is undefined and any
\* supplied nextDate differs from it; a supplied endDate is always a change.
updateRecurringChanges(existing, in) ==
    (IF in.frequency # "none" /\ in.frequency # existing.frequency
        THEN {"frequency"} ELSE {})
    \cup (IF in.nextDate # "none" THEN {"next_invoice_date"} ELSE {})
    \cup (IF in.endDate # "none" THEN {"end_date"} ELSE {})

updateRecurring(d, in, fail) ==
    LET effectiveUserId == getEffectiveUserId(in.userId)
        found == FindRecurring(d, effectiveUserId, in.recurringId)
        existing == The(found)
        changes == updateRecurringChanges(existing, in)
        \* changes.end_date = endDate || null
        updated == [existing EXCEPT
                       !.frequency = IF "frequency" \in changes THEN in.frequency ELSE @,
                       !.end_date = IF "end_date" \in changes
                                    THEN (IF in.endDate = "" THEN "none" ELSE in.endDate)
                                    ELSE @]
        touched == Owners(found)
    IN  IF found = {}
        THEN [status |-> "not_found", db |-> d, reads |-> 2, writes |-> 0, touched |-> {}]
        ELSE IF changes = {}
        THEN [status |-> "no_changes", db |-> d, reads |-> 2, writes |-> 0,
              touched |-> touched]
        ELSE IF ~in.confirmed
        THEN [status |-> "preview", db |-> d, reads |-> 2, writes |-> 0,
              touched |-> touched]
        ELSE IF fail = 1
        THEN [status |-> "error", db |-> d, reads |-> 2, writes |-> 1,
              touched |-> touched]
        ELSE [status |-> "success",
              db |-> [d EXCEPT !.recurring_invoices = UpdateById(@, existing.id, updated)],
              reads |-> 2, writes |-> 1, touched |-> touched]

deleteRecurring(d, in, fail) ==
    LET effectiveUserId == getEffectiveUserId(in.userId)
        found == FindRecurring(d, effectiveUserId, in.recurringId)
        recurring == The(found)
        touched == Owners(found) \cup Owners(RowsById(d.clients, recurring.client_id))
    IN  IF found = {}
        THEN [status |-> "not_found", db |-> d, reads |-> 2, writes |-> 0, touched |-> {}]
        ELSE IF ~in.confirmed
        THEN [status |-> "preview", db |-> d, reads |-> 2, writes |-> 0,
              touched |-> touched]
        ELSE IF fail = 1
        THEN [status |-> "error", db |-> d, reads |-> 2, writes |-> 1,
              touched |-> touched]
        ELSE [status |-> "success",
              db |-> [d EXCEPT !.recurring_invoices = @ \ found],
              reads |-> 2, writes |-> 1, touched |-> touched]

FindTemplate(d, owner, templateId) ==
    {t \in d.invoice_templates : t.id = templateId /\ t.user_id = owner}

saveAsTemplate(d, in, fail) ==
    LET effectiveUserId == getEffectiveUserId(in.userId)
        found == FindInvoice(d, effectiveUserId, in.invoiceId, in.invoiceNumber)
        invoice == The(found)
        newTemplate == [id |-> NextId(d.invoice_templates),
                        user_id |-> effectiveUserId, name |-> in.templateName,
                        items |-> {[n |-> it.n, net_amount |-> it.net_amount,
                                    tax_amount |-> it.tax_amount] :
                                      it \in {x \in d.invoice_items : x.invoice_id = invoice.id}},
                        subtotal |-> invoice.subtotal,
                        tax_amount |-> invoice.tax_amount,
                        total |-> invoice.total, notes |-> invoice.notes]
    IN  IF in.invoiceId = 0 /\ in.invoiceNumber = 0
        THEN [status |-> "error", db |-> d, reads |-> 1, writes |-> 0, touched |-> {}]
        ELSE IF found = {}
        THEN [status |-> "not_found", db |-> d, reads |-> 2, writes |-> 0, touched |-> {}]
        ELSE IF fail = 1
        THEN [status |-> "error", db |-> d, reads |-> 2, writes |-> 1,
              touched |-> Owners(found)]
        ELSE [status |-> "success",
              db |-> [d EXCEPT !.invoice_templates = @ \cup {newTemplate}],
              reads |-> 2, writes |-> 1, touched |-> Owners(found)]

updateTemplate(d, in, fail) ==
    LET effectiveUserId == getEffectiveUserId(in.userId)
        found == FindTemplate(d, effectiveUserId, in.templateId)
        existing == The(found)
    IN  IF found = {}
        THEN [status |-> "not_found", db |-> d, reads |-> 2, writes |-> 0, touched |-> {}]
        ELSE IF fail = 1
        THEN [status |-> "error", db |-> d, reads |-> 2, writes |-> 1,
              touched |-> Owners(found)]
        ELSE [status |-> "success",
              db |-> [d EXCEPT !.invoice_templates =
                         UpdateById(@, existing.id, [existing EXCEPT !.name = in.name])],
              reads |-> 2, writes |-> 1, touched |-> Owners(found)]

createFromTemplate(d, in, fail) ==
    LET effectiveUserId == getEffectiveUserId(in.userId)
        found == FindTemplate(d, effectiveUserId, in.templateId)
        template == The(found)
        client == RowsById(d.clients, in.clientId)
        touched == Owners(found) \cup Owners(client)
        newId == NextId(d.invoices)
        newInvoice == [id |-> newId, user_id |-> effectiveUserId,
                       invoice_number |-> get_next_invoice_number(d, effectiveUserId),
                       client_id |-> in.clientId, status |-> "draft",
                       subtotal |-> template.subtotal,
                       tax_amount |-> template.tax_amount,
                       total |-> template.total, balance_due |-> template.total,
                       amount_paid |-> 0, due_date |-> "t1",
                       notes |-> template.notes, deleted |-> FALSE]
        itemsToInsert == {[invoice_id |-> newId, n |-> it.n,
                           net_amount |-> it.net_amount,
                           tax_amount |-> it.tax_amount] : it \in template.items}
        hasSettings == \E st \in d.invoice_settings : st.user_id = effectiveUserId
        writes == 1 + (IF template.items # {} THEN 1 ELSE 0)
                    + (IF hasSettings THEN 1 ELSE 0)
    IN  IF found = {}
        THEN [status |-> "not_found", db |-> d, reads |-> 2, writes |-> 0, touched |-> {}]
        ELSE IF ~in.confirmed
        THEN [status |-> "preview", db |-> d, reads |-> 4, writes |-> 0,
              touched |-> touched]
        ELSE IF fail = 1
        THEN [status |-> "error", db |-> d, reads |-> 6, writes |-> 1,
              touched |-> touched]
        ELSE [status |-> "success",
              db |-> [d EXCEPT
                        !.invoices = @ \cup {newInvoice},
                        !.invoice_items = IF fail = 2 THEN @ ELSE @ \cup itemsToInsert,
                        !.invoice_settings =
                            IF fail = 3 THEN @ ELSE AdvanceNextNumber(@, effectiveUserId)],
              reads |-> 7, writes |-> writes, touched |-> touched]

---------------------------------------------------------------------------
(* clients.ts, vendors.ts, categories.ts                                   *)

\* .eq("user_id", userId).ilike("name", name).is("deleted_at", null)
OwnLiveByName_ExactCase(table, userId, name) ==
    {r \in table : r.user_id = userId /\ ~r.deleted /\ r.name = name}

OwnLiveByName(table, userId, name) ==
    {r \in table : r.user_id = userId /\ ~r.deleted
                     /\ toLowerCase(r.name) = toLowerCase(name)}

addClient(d, in, fail) ==
    LET existing == OwnLiveByName(d.clients, in.userId, in.name)
        newClient == [id |-> NextId(d.clients), user_id |-> in.userId,
                      name |-> in.name, email |-> in.email, deleted |-> FALSE]
    IN  IF existing # {}
        THEN [status |-> "exists", db |-> d, reads |-> 1, writes |-> 0,
              touched |-> Owners(existing)]
        ELSE IF fail = 1
        THEN [status |-> "error", db |-> d, reads |-> 1, writes |-> 1,
              touched |-> {in.userId}]
        ELSE [status |-> "success",
              db |-> [d EXCEPT !.clients = @ \cup {newClient}],
              reads |-> 1, writes |-> 1, touched |-> {in.userId}]

updateClientPreviewMode_Never(in) == FALSE

\* if (!confirmed): the preview branch of updateClient.
updateClientPreviewMode(in) == ~in.confirmed

updateClientChanges(existing, in) ==
    (IF in.name # <<>> /\ in.name # existing.name THEN {"name"} ELSE {})
    \cup (IF in.email # "none" /\ in.email # existing.email THEN {"email"} ELSE {})

updateClient(d, in, fail) ==
    LET found == OwnLiveById(d.clients, in.clientId, in.userId)
        existing == The(found)
        changes == updateClientChanges(existing, in)
        updated == [existing EXCEPT
                       !.name = IF "name" \in changes THEN in.name ELSE @,
                       !.email = IF "email" \in changes THEN in.email ELSE @]
    IN  IF found = {}
        THEN [status |-> "not_found", db |-> d, reads |-> 1, writes |-> 0, touched |-> {}]
        ELSE IF changes = {}
        THEN [status |-> "no_changes", db |-> d, reads |-> 1, writes |-> 0,
              touched |-> Owners(found)]
        ELSE IF updateClientPreviewMode(in)
        THEN [status |-> "preview", db |-> d, reads |-> 1, writes |-> 0,
              touched |-> Owners(found)]
        ELSE IF fail = 1
        THEN [status |-> "error", db |-> d, reads |-> 1, writes |-> 1,
              touched |-> Owners(found)]
        ELSE [status |-> "success",
              db |-> [d EXCEPT !.clients = UpdateById(@, existing.id, updated)],
              reads |-> 1, writes |-> 1, touched |-> Owners(found)]

addVendor(d, in, fail) ==
    LET existing == OwnLiveByName(d.vendors, in.userId, in.name)
        newVendor == [id |-> NextId(d.vendors), user_id |-> in.userId,
                      name |-> in.name, deleted |-> FALSE]
    IN  IF existing # {}
        THEN [status |-> "exists", db |-> d, reads |-> 1, writes |-> 0,
              touched |-> Owners(existing)]
        ELSE IF fail = 1
        THEN [status |-> "error", db |-> d, reads |-> 1, writes |-> 1,
              touched |-> {in.userId}]
        ELSE [status |-> "success",
              db |-> [d EXCEPT !.vendors = @ \cup {newVendor}],
              reads |-> 1, writes |-> 1, touched |-> {in.userId}]

addCategory(d, in, fail) ==
    LET existing == {c \in OwnLiveByName(d.categories, in.userId, in.name) :
                        c.type = in.type}
        newCategory == [id |-> NextId(d.categories), user_id |-> in.userId,
                        type |-> in.type, name |-> in.name, color |-> in.color,
                        deleted |-> FALSE]
    IN  IF existing # {}
        THEN [status |-> "exists", db |-> d, reads |-> 1, writes |-> 0,
              touched |-> Owners(existing)]
        ELSE IF fail = 1
        THEN [status |-> "error", db |-> d, reads |-> 1, writes |-> 1,
              touched |-> {in.userId}]
        ELSE [status |-> "success",
              db |-> [d EXCEPT !.categories = @ \cup {newCategory}],
              reads |-> 1, writes |-> 1, touched |-> {in.userId}]

updateCategoryChanges(existing, in) ==
    (IF in.name # <<>> /\ in.name # existing.name THEN {"name"} ELSE {})
    \cup (IF in.color # "none" /\ in.color # existing.color THEN {"color"} ELSE {})

updateCategory(d, in, fail) ==
    LET found == OwnLiveById(d.categories, in.categoryId, in.userId)
        existing == The(found)
        changes == updateCategoryChanges(existing, in)
        updated == [existing EXCEPT
                       !.name = IF "name" \in changes THEN in.name ELSE @,
                       !.color = IF "color" \in changes THEN in.color ELSE @]
    IN  IF found = {}
        THEN [status |-> "not_found", db |-> d, reads |-> 1, writes |-> 0, touched |-> {}]
        ELSE IF changes = {}
        THEN [status |-> "no_changes", db |-> d, reads |-> 1, writes |-> 0,
              touched |-> Owners(found)]
        ELSE IF fail = 1
        THEN [status |-> "error", db |-> d, reads |-> 1, writes |-> 1,
              touched |-> Owners(found)]
        ELSE [status |-> "success",
              db |-> [d EXCEPT !.categories = UpdateById(@, existing.id, updated)],
              reads |-> 1, writes |-> 1, touched |-> Owners(found)]

---------------------------------------------------------------------------
(* projects.ts                                                             *)

\* new Date(endDate) <= new Date(startDate), for two supplied dates.
createProjectDatesInvalid(in) ==
    in.startDate # 0 /\ in.endDate # 0 /\ in.endDate <= in.startDate

createProject(d, in, fail) ==
    LET existing == OwnLiveByName(d.projects, in.userId, in.name)
        clients == IF in.clientName = <<>> THEN {}
                   ELSE {c \in d.clients :
                            /\ c.user_id = in.userId /\ ~c.deleted
                            /\ includes(toLowerCase(c.name), toLowerCase(in.clientName))}
        client == IF clients = {} THEN {} ELSE {CHOOSE c \in clients : TRUE}
        reads == 2 + (IF in.clientName # <<>> THEN 1 ELSE 0)
        touched == {in.userId} \cup Owners(client)
        project == [id |-> NextId(d.projects), user_id |-> in.userId,
                    client_id |-> IdOrNull(client), name |-> in.name,
                    start_date |-> in.startDate, end_date |-> in.endDate,
                    updated_at |-> 0, deleted |-> FALSE]
    IN  IF existing # {}
        THEN [status |-> "error", db |-> d, reads |-> 1, writes |-> 0,
              touched |-> Owners(existing)]
        ELSE IF createProjectDatesInvalid(in)
        THEN [status |-> "error", db |-> d, reads |-> reads, writes |-> 0,
              touched |-> touched]
        ELSE IF ~in.confirmed
        THEN [status |-> "preview", db |-> d, reads |-> reads, writes |-> 0,
              touched |-> touched]
        ELSE IF fail = 1
        THEN [status |-> "error", db |-> d, reads |-> reads, writes |-> 1,
              touched |-> touched]
        ELSE [status |-> "success",
              db |-> [d EXCEPT !.projects = @ \cup {project}],
              reads |-> reads, writes |-> 1, touched |-> touched]

\* The `updates` object of updateProject, without updated_at, which is
\* always in it; a clientName that resolves is always a change.
updateProjectChanges(project, in, clients) ==
    (IF in.name # <<>> /\ in.name # project.name THEN {"name"} ELSE {})
    \cup (IF in.endDate # 0 /\ in.endDate # project.end_date
          THEN {"end_date"} ELSE {})
    \cup (IF clients # {} THEN {"client_id"} ELSE {})

updateProject(d, in, fail) ==
    LET found == {r \in d.projects : r.id = in.projectId /\ r.user_id = in.userId}
        project == The(found)
        matching == IF in.clientName = <<>> THEN {}
                    ELSE {c \in d.clients :
                             /\ c.user_id = in.userId /\ ~c.deleted
                             /\ includes(toLowerCase(c.name), toLowerCase(in.clientName))}
        clients == IF matching = {} THEN {} ELSE {CHOOSE c \in matching : TRUE}
        changes == updateProjectChanges(project, in, clients)
        reads == 1 + (IF in.clientName # <<>> THEN 1 ELSE 0)
        touched == Owners(found) \cup Owners(clients)
        updated == [project EXCEPT
                       !.updated_at = in.now,
                       !.name = IF "name" \in changes THEN in.name ELSE @,
                       !.end_date = IF "end_date" \in changes THEN in.endDate ELSE @,
                       !.client_id = IF "client_id" \in changes
                                     THEN IdOrNull(clients) ELSE @]
    IN  IF found = {}
        THEN [status |-> "error", db |-> d, reads |-> 1, writes |-> 0, touched |-> {}]
        ELSE IF changes = {}
        THEN [status |-> "info", db |-> d, reads |-> reads, writes |-> 0,
              touched |-> touched]
        ELSE IF ~in.confirmed
        THEN [status |-> "preview", db |-> d, reads |-> reads, writes |-> 0,
              touched |-> touched]
        ELSE IF fail = 1
        THEN [status |-> "error", db |-> d, reads |-> reads, writes |-> 1,
              touched |-> touched]
        ELSE [status |-> "success",
              db |-> [d EXCEPT !.projects = UpdateById(@, project.id, updated)],
              reads |-> reads, writes |-> 1, touched |-> touched]

\* createMilestone: the project is looked up by id and user_id, then the
\* milestone is inserted with status "pending".
createMilestone(d, in, fail) ==
    LET project == {r \in d.projects :
                       r.id = in.projectId /\ r.user_id = in.userId}
        milestone == [id |-> NextId(d.project_milestones),
                      user_id |-> in.userId, project_id |-> in.projectId,
                      deleted_at |-> 0, name |-> in.name, status |-> "pending",
                      completion_date |-> 0, updated_at |-> 0]
    IN  IF project = {}
        THEN [status |-> "error", db |-> d, reads |-> 1, writes |-> 0, touched |-> {}]
        ELSE IF ~in.confirmed
        THEN [status |-> "preview", db |-> d, reads |-> 1, writes |-> 0,
              touched |-> Owners(project)]
        ELSE IF fail = 1
        THEN [status |-> "error", db |-> d, reads |-> 1, writes |-> 1,
              touched |-> Owners(project)]
        ELSE [status |-> "success",
              db |-> [d EXCEPT !.project_milestones = @ \cup {milestone}],
              reads |-> 1, writes |-> 1, touched |-> Owners(project)]

\* if (status && status !== milestone.status) updates.status = status
updateMilestoneStatus(milestone, status) ==
    IF status # "" /\ status # milestone.status THEN {"status"} ELSE {}

\* updateMilestone, with the name and the status among its optional inputs
\* (dueDate, targetAmount and invoiceId are handled like the name).
updateMilestone(d, in, fail) ==
    LET found == {r \in d.project_milestones :
                     r.id = in.milestoneId /\ r.user_id = in.userId}
        milestone == The(found)
        changes == (IF in.name # <<>> /\ in.name # milestone.name
                    THEN {"name"} ELSE {})
                   \cup updateMilestoneStatus(milestone, in.status)
        updated == [milestone EXCEPT
                       !.updated_at = in.now,
                       !.name = IF "name" \in changes THEN in.name ELSE @,
                       !.status = IF "status" \in changes THEN in.status ELSE @,
                       !.completion_date =
                           IF /\ "status" \in changes
                              /\ in.status = "completed"
                              /\ milestone.completion_date = 0
                           THEN in.now ELSE @]
    IN  IF found = {}
        THEN [status |-> "error", db |-> d, reads |-> 1, writes |-> 0, touched |-> {}]
        ELSE IF changes = {}
        THEN [status |-> "info", db |-> d, reads |-> 1, writes |-> 0,
              touched |-> Owners(found)]
        ELSE IF ~in.confirmed
        THEN [status |-> "preview", db |-> d, reads |-> 1, writes |-> 0,
              touched |-> Owners(found)]
        ELSE IF fail = 1
        THEN [status |-> "error", db |-> d, reads |-> 1, writes |-> 1,
              touched |-> Owners(found)]
        ELSE [status |-> "success",
              db |-> [d EXCEPT !.project_milestones =
                                   UpdateById(@, milestone.id, updated)],
              reads |-> 1, writes |-> 1, touched |-> Owners(found)]

\* deleteMilestone, deleteGoal, deleteTimeEntry and deleteProjectNote share
\* one body: fetch by id and user_id (no deleted_at filter), preview, then
\* update({ deleted_at: now }).eq("id", id), whose result is not inspected.
softDelete(d, table, in, fail) ==
    LET found == {r \in d[table] : r.id = in.id /\ r.user_id = in.userId}
        touched == Owners(found)
                     \cup (IF table = "project_notes" THEN {}
                           ELSE Owners(RowsById(d.projects, The(found).project_id)))
    IN  IF found = {}
        THEN [status |-> "error", db |-> d, reads |-> 1, writes |-> 0, touched |-> {}]
        ELSE IF ~in.confirmed
        THEN [status |-> "preview", db |-> d, reads |-> 1, writes |-> 0,
              touched |-> touched]
        ELSE [status |-> "success",
              db |-> IF fail = 1 THEN d
                     ELSE [d EXCEPT ![table] =
                              UpdateById(@, in.id,
                                         [The(found) EXCEPT !.deleted_at = in.now])],
              reads |-> 1, writes |-> 1, touched |-> touched]

deleteMilestone(d, in, fail) == softDelete(d, "project_milestones", in, fail)

deleteGoal(d, in, fail) == softDelete(d, "project_goals", in, fail)

deleteTimeEntry(d, in, fail) == softDelete(d, "project_time_entries", in, fail)

deleteProjectNote(d, in, fail) == softDelete(d, "project_notes", in, fail)

---------------------------------------------------------------------------
(* The resolvers: searchClients (clients.ts), searchVendors (vendors.ts),  *)
(* searchProjects (projects.ts) and the client suggestions of addIncome.   *)
(* calculateMatchScore of those files is calculateLevenshteinScore of      *)
(* income.ts under another name.  The contact columns of clients and       *)
(* vendors (email, phone, company_name, address) are kept beside the rows, *)
(* by row id; <<>> is null.                                                *)

NoContact == [email |-> <<>>, phone |-> <<>>, company_name |-> <<>>, address |-> <<>>]

\* Client 1 and vendor 1 (both of u1) have contact columns filled in.
SeedContacts(id) ==
    IF id = 1
    THEN [email |-> <<"a", "@", "b", ".", "c">>,
          phone |-> <<"5", "5", "5", "-", "1", "2", "3", "4">>,
          company_name |-> <<"x", "y", "c", "o">>,
          address |-> <<"q", "r", "s", "t">>]
    ELSE NoContact

Digits == {"0", "1", "2", "3", "4", "5", "6", "7", "8", "9"}

\* A replace that leaves the parentheses in.
stripPhone_KeepsParentheses(term) ==
    SelectSeq(term, LAMBDA ch : ch \notin {" ", "\t", "-", "+"})

\* term.replace(/[\s\-\+\(\)]/g, ""); of the whitespace class \s the
\* terms carry the space and the tab.
stripPhone(term) ==
    SelectSeq(term, LAMBDA ch : ch \notin {" ", "\t", "-", "+", "(", ")"})

detectSearchType(term) ==
    IF includes(term, <<"@">>) /\ includes(term, <<".">>) THEN "email"
    ELSE IF Len(stripPhone(term)) >= 7
              /\ \A i \in 1..Len(stripPhone(term)) : stripPhone(term)[i] \in Digits
    THEN "phone"
    ELSE "name"

\* .filter((c) => c.score >= 50)
keepsSuggestion_Always(score) == score >= 0

keepsSuggestion(score) == score >= 50

\* .sort((a, b) => b.score - a.score).slice(0, limit)
TopByScore(matches, limit) ==
    IF Cardinality(matches) <= limit THEN matches
    ELSE CHOOSE S \in SUBSET matches :
             /\ Cardinality(S) = limit
             /\ \A a \in S, b \in matches \ S : a.score >= b.score

\* The name branch of searchClients / searchVendors for one row: best of
\* name and (clients only) company score; an address hit lifts a score
\* below 50 to 80.
nameBranchScore(searchTerm, c, contact, withCompany) ==
    LET nameScore == calculateLevenshteinScore(searchTerm, c.name)
        companyScore == IF withCompany /\ contact.company_name # <<>>
                        THEN calculateLevenshteinScore(searchTerm, contact.company_name)
                        ELSE 0
        bestScore == Max2(nameScore, companyScore)
        addressMatch == contact.address # <<>>
                            /\ includes(toLowerCase(contact.address), toLowerCase(searchTerm))
    IN  IF addressMatch /\ bestScore < 50
        THEN [id |-> c.id, score |-> 80, matchedOn |-> "address"]
        ELSE [id |-> c.id, score |-> bestScore,
              matchedOn |-> IF nameScore >= companyScore THEN "name" ELSE "company_name"]

\* The score of a phone match that tells an equal number from a part of one.
phoneScore_ExactIs100(phone, term) == IF phone = term THEN 100 ELSE 90

\* score: 90 of the phone branch.
phoneScore(phone, term) == 90

\* Every candidate the search scores, before the threshold of the name
\* branch is applied.
scoredParties(rows, in, withCompany) ==
    LET term == toLowerCase(in.searchTerm)
        searchType == detectSearchType(in.searchTerm)
    IN  IF searchType = "email"
        THEN {[id |-> c.id,
               score |-> IF toLowerCase(SeedContacts(c.id).email) = term THEN 100 ELSE 90,
               matchedOn |-> "email"] :
                 c \in {r \in rows : /\ SeedContacts(r.id).email # <<>>
                                     /\ includes(toLowerCase(SeedContacts(r.id).email), term)}}
        ELSE IF searchType = "phone"
        THEN {[id |-> c.id, score |-> phoneScore(SeedContacts(c.id).phone, term),
               matchedOn |-> "phone"] :
                 c \in {r \in rows :
                          /\ SeedContacts(r.id).phone # <<>>
                          /\ \/ includes(stripPhone(SeedContacts(r.id).phone), stripPhone(term))
                             \/ includes(stripPhone(term), stripPhone(SeedContacts(r.id).phone))}}
        ELSE {nameBranchScore(in.searchTerm, c, SeedContacts(c.id), withCompany) : c \in rows}

\* bestMatch: matches[0].score >= 80 ? matches[0] : null, as a set of at
\* most one match.
bestMatch(matches) ==
    LET top == {m \in matches : \A o \in matches : o.score <= m.score}
    IN  IF top # {} /\ (CHOOSE m \in top : TRUE).score >= 80
        THEN {CHOOSE m \in top : TRUE} ELSE {}

\* The body shared by searchClients and searchVendors.
searchParties(d, table, in, withCompany) ==
    LET rows == {r \in d[table] : r.user_id = in.userId /\ ~r.deleted}
        scored == scoredParties(rows, in, withCompany)
        kept == IF detectSearchType(in.searchTerm) = "name"
                THEN {m \in scored : keepsSuggestion(m.score)} ELSE scored
    IN  [status |-> "success", db |-> d, reads |-> 1, writes |-> 0,
         touched |-> Owners(rows), scored |-> scored,
         matches |-> TopByScore(kept, in.limit),
         bestMatch |-> bestMatch(TopByScore(kept, in.limit))]

searchClients(d, in) == searchParties(d, "clients", in, TRUE)

searchVendors(d, in) == searchParties(d, "vendors", in, FALSE)

\* searchProjects with status "all" (the default): the caller's live
\* projects, filtered by the client's name when one is given, scored by
\* name.
searchProjects(d, in) ==
    LET projects == {r \in d.projects : r.user_id = in.userId /\ ~r.deleted}
        filteredProjects ==
            IF in.clientName = <<>> THEN projects
            ELSE {p \in projects :
                    \E c \in RowsById(d.clients, p.client_id) :
                        includes(toLowerCase(c.name), toLowerCase(in.clientName))}
        scored == {[id |-> p.id, score |-> calculateLevenshteinScore(in.query, p.name),
                    matchedOn |-> "name"] : p \in filteredProjects}
    IN  [status |-> "success", db |-> d, reads |-> 1, writes |-> 0,
         touched |-> Owners(projects), scored |-> scored,
         matches |-> TopByScore({m \in scored : keepsSuggestion(m.score)}, in.limit),
         bestMatch |-> {}]

\* Step 2 of addIncome: the scores of the caller's clients when no client
\* has exactly the given name, and the suggestions kept of them.
clientScores(d, userId, clientName) ==
    LET clients == {c \in d.clients : c.user_id = userId /\ ~c.deleted}
    IN  IF clientName = <<>>
           \/ \E c \in clients : toLowerCase(c.name) = toLowerCase(clientName)
        THEN {}
        ELSE {[id |-> c.id, score |-> calculateLevenshteinScore(clientName, c.name),
               matchedOn |-> "name"] : c \in clients}

clientSuggestions(d, userId, clientName) ==
    TopByScore({m \in clientScores(d, userId, clientName) : keepsSuggestion(m.score)}, 5)

---------------------------------------------------------------------------
(* The preview objects of createInvoice and addIncome.  `now` is the clock *)
(* reading of the call (Date.now(), new Date()); dates are day numbers, 0  *)
(* when the input leaves them out.                                         *)

\* date || new Date().toISOString().split("T")[0]
dateOrToday_Today(date, now) == now

dateOrToday(date, now) == IF date # 0 THEN date ELSE now

\* The number shown: the answer of the RPC, or `INV-${Date.now()}` when the
\* RPC reports an error.
invoiceNumberOrFallback(d, owner, now, rpcError) ==
    IF rpcError THEN [prefix |-> "INV-", n |-> now]
    ELSE [prefix |-> "rpc", n |-> get_next_invoice_number(d, owner)]

\* The preview of createInvoice.  The settings rows carry no payment_terms,
\* so the due date left out of the input is the invoice date plus 30 days.
createInvoicePreview(d, in, now, rpcError) ==
    LET effectiveUserId == getEffectiveUserId(in.userId)
        items == calculatedItems(in.items, DefaultTaxRateOf(d, effectiveUserId))
        subtotal == SumField(items, "net_amount")
        totalTax == SumField(items, "tax_amount")
        invoiceDate == dateOrToday(in.date, now)
    IN  [invoiceNumber |-> invoiceNumberOrFallback(d, effectiveUserId, now, rpcError),
         client |-> {c.name : c \in RowsById(d.clients, in.clientId)},
         date |-> invoiceDate,
         dueDate |-> IF in.dueDate # "none" THEN [on |-> in.dueDate, plus |-> 0]
                     ELSE [on |-> "none", plus |-> invoiceDate + 30],
         items |-> items, subtotal |-> subtotal, taxAmount |-> totalTax,
         total |-> subtotal + totalTax]

\* Step 5 of addIncome: the preview object.
addIncomePreview(d, in, now) ==
    LET defaultTaxRate == IF in.taxRate # {} THEN The(in.taxRate)
                          ELSE DefaultTaxRateOf(d, in.userId)
        matchedClient == MatchClientByName(d, in.userId, in.clientName)
        matchedCategory == MatchCategoryByName(d, in.userId, "income", in.categoryName)
        taxAmount == TaxAmount(in.amount, defaultTaxRate)
    IN  [amount |-> in.amount, date |-> dateOrToday(in.date, now),
         taxRate |-> defaultTaxRate, taxAmount |-> taxAmount,
         totalWithTax |-> in.amount + taxAmount,
         client |-> IF matchedClient # {}
                    THEN [id |-> IdOrNull(matchedClient), matched |-> TRUE,
                          suggestions |-> {}]
                    ELSE [id |-> 0, matched |-> FALSE,
                          suggestions |-> IF in.clientName = <<>> THEN {}
                                          ELSE clientSuggestions(d, in.userId,
                                                                 in.clientName)],
         category |-> IdOrNull(matchedCategory)]

---------------------------------------------------------------------------
(* voice-tools.ts and the voice function route.                            *)

\* The keys of smartCFOTools that the dispatcher is exercised with.
Registry == {"addIncome", "addExpense", "createProject"}

\* Keys every object inherits from Object.prototype: the lookup is truthy
\* but has no execute function.
InheritedKeys == {"constructor"}

\* inputSchema of addIncome / addExpense: amount is z.number().positive().
amountSchema(in) == in.amount > 0

\* A call that reached no tool.
NoCall(d, status) ==
    [status |-> status, db |-> d, reads |-> 0, writes |-> 0, touched |-> {}]

\* tool.execute(parameters, ...) of a registered tool.
execute(d, functionName, parameters, fail) ==
    CASE functionName = "addIncome" -> addIncome(d, parameters, fail)
      [] functionName = "addExpense" -> addExpense(d, parameters, fail)
      [] functionName = "createProject" -> createProject(d, parameters, fail)

executeVoiceToolCatch_Rethrow(d) ==
    [outcome |-> "none", threw |-> TRUE, o |-> NoCall(d, "none")]

\* The catch block of executeVoiceTool: the exception becomes {error}.
executeVoiceToolCatch(d) ==
    [outcome |-> "error", threw |-> FALSE, o |-> NoCall(d, "none")]

executeVoiceTool(d, functionName, parameters, fail) ==
    IF functionName \notin Registry \cup InheritedKeys
    THEN [outcome |-> "error", threw |-> FALSE, o |-> NoCall(d, "none")]
    ELSE IF functionName \in InheritedKeys
    THEN executeVoiceToolCatch(d)
    ELSE [outcome |-> "result", threw |-> FALSE,
          o |-> execute(d, functionName, parameters, fail)]

\* { userId: session.user.id, ...parameters }: a supplied userId wins.
safeParams_ParametersWin(parameters, sessionUserId) ==
    [parameters EXCEPT !.userId = IF @ = "none" THEN sessionUserId ELSE @]

\* { ...parameters, userId: session.user.id }
safeParams(parameters, sessionUserId) ==
    [parameters EXCEPT !.userId = sessionUserId]

\* The response of POST to what executeVoiceTool did: 500 from the catch
\* block when it threw, else the result as JSON.
NextResponse(functionName, userId, result) ==
    IF result.threw
    THEN [code |-> 500, outcome |-> "error", threw |-> TRUE, o |-> result.o,
          userId |-> "none"]
    ELSE [code |-> 200, outcome |-> result.outcome, threw |-> FALSE,
          o |-> result.o,
          userId |-> IF functionName \in Registry THEN userId ELSE "none"]

\* executeVoiceTool(functionName, safeParams) and the response to it.
POSTExecute(d, functionName, sp, fail) ==
    NextResponse(functionName, sp.userId,
                 executeVoiceTool(d, functionName, sp, fail))

POST(d, session, body, fail) ==
    IF session = "none"
    THEN [code |-> 401, outcome |-> "error", threw |-> FALSE,
          o |-> NoCall(d, "none"), userId |-> "none"]
    ELSE IF body.functionName = ""
    THEN [code |-> 400, outcome |-> "error", threw |-> FALSE,
          o |-> NoCall(d, "none"), userId |-> "none"]
    ELSE POSTExecute(d, body.functionName,
                     safeParams(body.parameters, session), fail)

---------------------------------------------------------------------------
(* The playback processor (public/pcm-processor.js) and the two places of  *)
(* the voice client that post to its port.  Samples are numbered 1, 2, ... *)
(* in the order the client posts them; 0 is silence.  The thresholds of    *)
(* the source (7200 and 48000 samples, render quanta of 128) are scaled    *)
(* down so that queues of samples can be enumerated.                       *)

\* this.MIN_BUFFER_TO_START = 24000 * 0.3 (7200 samples), scaled.
MIN_BUFFER_TO_START == 3

\* this.COMPACT_THRESHOLD = 48000, scaled.
COMPACT_THRESHOLD == 2

\* channel.length, the render quantum (128 frames), scaled.
Quantum == 2

\* Samples the client posts in one behaviour, clears it posts, and messages
\* in flight on the port.
MaxSamples == 6

MaxClears == 2

MaxInFlight == 2

RECURSIVE Silence(_)
Silence(n) == IF n <= 0 THEN <<>> ELSE <<0>> \o Silence(n - 1)

\* constructor()
PCMPlayerProcessor == [buffer |-> <<>>, readIndex |-> 0, isPlaying |-> FALSE]

\* event.data === 'clear': drop the buffer and wait for the pre-buffer again.
clearBuffer_KeepsUnread(p) == [p EXCEPT !.isPlaying = FALSE]

\* The clear with the read position left where it was.
clearBuffer_KeepsCursor(p) ==
    [buffer |-> <<>>, readIndex |-> p.readIndex, isPlaying |-> FALSE]

clearBuffer(p) == [buffer |-> <<>>, readIndex |-> 0, isPlaying |-> FALSE]

\* !this.isPlaying && availableSamples >= this.MIN_BUFFER_TO_START
startsPlayback_AnySample(p, availableSamples) ==
    ~p.isPlaying /\ availableSamples >= 1

startsPlayback(p, availableSamples) ==
    ~p.isPlaying /\ availableSamples >= MIN_BUFFER_TO_START

\* if (this.readIndex > this.COMPACT_THRESHOLD): buffer.slice(readIndex)
compact_SliceAtThreshold(p) ==
    IF p.readIndex > COMPACT_THRESHOLD
    THEN [p EXCEPT !.buffer = SubSeq(p.buffer, COMPACT_THRESHOLD + 1, Len(p.buffer)),
                   !.readIndex = 0]
    ELSE p

compact(p) ==
    IF p.readIndex > COMPACT_THRESHOLD
    THEN [p EXCEPT !.buffer = SubSeq(p.buffer, p.readIndex + 1, Len(p.buffer)),
                   !.readIndex = 0]
    ELSE p

\* The append branch once the samples are pushed: start check, compaction.
afterPush(p) ==
    compact([p EXCEPT !.isPlaying =
                 @ \/ startsPlayback(p, Len(p.buffer) - p.readIndex)])

\* this.port.onmessage
onmessage(p, data) ==
    IF data.clear
    THEN clearBuffer(p)
    ELSE afterPush([p EXCEPT !.buffer = @ \o data.samples])

\* process with playback switched off by a block that ran out of samples.
process_UnderrunStops(p) ==
    IF ~p.isPlaying
    THEN [p |-> p, channel |-> Silence(Quantum)]
    ELSE [p |-> [p EXCEPT !.readIndex = Min2(Len(p.buffer), @ + Quantum),
                          !.isPlaying = p.readIndex + Quantum <= Len(p.buffer)],
          channel |->
              SubSeq(p.buffer, p.readIndex + 1,
                     Min2(Len(p.buffer), p.readIndex + Quantum))
                  \o Silence(p.readIndex + Quantum - Len(p.buffer))]

\* process(inputs, outputs): the processor after the call and the channel it
\* filled.
process(p) ==
    IF ~p.isPlaying
    THEN [p |-> p, channel |-> Silence(Quantum)]
    ELSE [p |-> [p EXCEPT !.readIndex = Min2(Len(p.buffer), @ + Quantum)],
          channel |->
              SubSeq(p.buffer, p.readIndex + 1,
                     Min2(Len(p.buffer), p.readIndex + Quantum))
                  \o Silence(p.readIndex + Quantum - Len(p.buffer))]

\* port.postMessage: the port delivers in posting order.
postMessage_JumpsQueue(queue, data) == <<data>> \o queue

postMessage(queue, data) == Append(queue, data)

\* handleAudioData posts the converted frame; UserStartedSpeaking posts
\* 'clear'.  `mark` remembers the last sample posted before the message.
SamplesMessage(first, n) ==
    [clear |-> FALSE, samples |-> [i \in 1..n |-> first + i - 1], mark |-> first - 1]

ClearMessage(posted) == [clear |-> TRUE, samples |-> <<>>, mark |-> posted]

---------------------------------------------------------------------------
(* The voice client: VoiceAgentButton (streaming conversation) and         *)
(* VoiceChatButton (push-to-talk recorder).  A resource is "none" until it *)
(* is acquired, then "live", then "released"; `refs` are the refs of the   *)
(* component that are not null.  The capture context of startAudioCapture  *)
(* is a local variable and is never in `refs`.                             *)

\* Conversations (and recordings) the user starts in one behaviour.
MaxStarts == 2

Kinds == {"ws", "processor", "worklet", "mediaStream", "audioContext", "inputContext"}

\* useState("idle") and the refs initialised to null.
VoiceAgentButton ==
    [state |-> "idle", pc |-> "none", closureState |-> "none",
     readyState |-> "none", res |-> [k \in Kinds |-> "none"], refs |-> {}, orphans |-> {},
     released |-> <<>>, event |-> "none", failedAt |-> "none",
     clicks |-> 0, attempts |-> 0]

\* A resource of kind k is created; one of that kind still live and no
\* longer referenced stays live for good.
Acquire(v, k) ==
    [v EXCEPT !.res[k] = "live",
              !.orphans = IF v.res[k] = "live" THEN @ \cup {k} ELSE @]

AcquireRef(v, k) == [Acquire(v, k) EXCEPT !.refs = @ \cup {k}]

\* The order in which stopConversation visits its refs.
StopOrder == <<"ws", "processor", "worklet", "mediaStream", "audioContext">>

RECURSIVE ReleaseInOrder(_, _)
ReleaseInOrder(refs, order) ==
    IF order = <<>> THEN <<>>
    ELSE (IF Head(order) \in refs THEN <<Head(order)>> ELSE <<>>)
             \o ReleaseInOrder(refs, Tail(order))

\* stopConversation: close / disconnect / stop whatever the refs hold, null
\* the refs, setState("idle").
stopConversation(v) ==
    [v EXCEPT !.res = [k \in Kinds |-> IF k \in v.refs THEN "released" ELSE @[k]],
              !.refs = {},
              !.released = ReleaseInOrder(v.refs, StopOrder),
              !.readyState = IF "ws" \in v.refs THEN "CLOSED" ELSE @,
              !.state = "idle"]

\* The catch block of startConversation: toast, setState("idle").
startConversationCatch_Retries(v, step) ==
    [v EXCEPT !.state = "connecting", !.pc = "fetch", !.attempts = @ + 1,
              !.event = "startFailed", !.failedAt = step]

startConversationCatch(v, step) ==
    [v EXCEPT !.state = "idle", !.pc = "none", !.event = "startFailed",
              !.failedAt = step]

\* startConversation up to its first await: the guard on state, then
\* setState("connecting") and the config fetch.
startConversation(v) ==
    IF v.state # "idle" THEN v
    ELSE [v EXCEPT !.state = "connecting", !.pc = "fetch",
                   !.closureState = v.state, !.attempts = @ + 1,
                   !.event = "started", !.failedAt = "none"]

\* The steps of startConversation between two awaits, each of which may
\* throw.  After the fetch: getUserMedia is awaited.
afterFetch(v, throws) ==
    IF throws = "fetch" THEN startConversationCatch(v, "fetch")
    ELSE [v EXCEPT !.pc = "getUserMedia", !.event = "acquiring"]

\* After getUserMedia: the stream is kept, the rendering context is created,
\* the worklet module is awaited.
afterGetUserMedia(v, throws) ==
    IF throws = "getUserMedia" THEN startConversationCatch(v, "getUserMedia")
    ELSE IF throws = "audioContext"
    THEN startConversationCatch(AcquireRef(v, "mediaStream"), "audioContext")
    ELSE [AcquireRef(AcquireRef(v, "mediaStream"), "audioContext")
              EXCEPT !.pc = "addModule", !.event = "acquiring"]

\* After addModule: the worklet node and the socket are created and the
\* socket handlers installed.
afterAddModule(v, throws) ==
    IF throws = "addModule" THEN startConversationCatch(v, "addModule")
    ELSE IF throws = "socket"
    THEN startConversationCatch(AcquireRef(v, "worklet"), "socket")
    ELSE [AcquireRef(AcquireRef(v, "worklet"), "ws")
              EXCEPT !.pc = "none", !.readyState = "CONNECTING",
                     !.event = "connecting"]

\* startAudioCapture: a capture context held in a local, the script
\* processor kept in processorRef.
startAudioCapture(v) == AcquireRef(Acquire(v, "inputContext"), "processor")

\* ws.onopen
onopen(v) ==
    [startAudioCapture(v) EXCEPT !.state = "listening", !.readyState = "OPEN",
                                 !.event = "opened"]

\* The socket is closed, by the peer or by a failure.
SocketGone(v) == [v EXCEPT !.readyState = "CLOSED", !.res["ws"] = "released"]

\* ws.onerror: toast, stopConversation().
onerror(v) == [stopConversation(v) EXCEPT !.event = "socketError"]

\* ws.onclose: stopConversation() unless the state that startConversation
\* closed over is "idle".
onclose(v) ==
    IF v.closureState # "idle"
    THEN [stopConversation(v) EXCEPT !.event = "stopped"]
    ELSE [v EXCEPT !.event = "socketClosed"]

\* toggleConversation
toggleConversation(v) ==
    IF v.state = "idle"
    THEN [startConversation(v) EXCEPT !.clicks = @ + 1]
    ELSE [stopConversation(v) EXCEPT !.event = "stopped"]

\* What wsRef.current?.send(...) meets: no socket held ("null"), or the
\* readyState of the socket held.  An OPEN socket transmits, a CLOSED one
\* discards the data, a CONNECTING one throws.
socketAtSend(v) == IF "ws" \in v.refs THEN v.readyState ELSE "null"

\* The send that goes out whatever the socket.
sendResponse_IgnoresSocket(f, v, func, code, socket) ==
    [f EXCEPT
        !.log = Append(@, [id |-> func.id, code |-> code, socket |-> socket]),
        !.sent = Append(@, [id |-> func.id, name |-> func.name,
                            content |-> IF code = 200 THEN "result"
                                        ELSE "error",
                            conv |-> v.attempts])]

\* wsRef.current?.send(JSON.stringify({type: "FunctionCallResponse", id,
\* name, content})).  `log` notes each attempt with the socket it met, `sent`
\* what went out and on which conversation's socket.
sendResponse(f, v, func, code, socket) ==
    [f EXCEPT
        !.log = Append(@, [id |-> func.id, code |-> code, socket |-> socket]),
        !.sent = IF socket = "OPEN"
                 THEN Append(@, [id |-> func.id, name |-> func.name,
                                 content |-> IF code = 200 THEN "result"
                                             ELSE "error",
                                 conv |-> v.attempts])
                 ELSE @]

\* The for loop of handleFunctionCall from entry i on, up to the next await:
\* server-side entries are skipped, arguments that do not parse are
\* answered from the catch block, and the first entry that parses is
\* POSTed.  A send that throws ends the function.
RECURSIVE handleFunctionCallLoop(_, _, _, _)
handleFunctionCallLoop(f, v, t, i) ==
    IF i > Len(f.requests[t].functions)
    THEN [f EXCEPT !.requests[t].i = i, !.requests[t].pc = "done"]
    ELSE IF ~f.requests[t].functions[i].client_side
    THEN handleFunctionCallLoop(f, v, t, i + 1)
    ELSE IF f.requests[t].functions[i].arguments = "malformed"
    THEN IF socketAtSend(v) = "CONNECTING"
         THEN [sendResponse(f, v, f.requests[t].functions[i], 0, socketAtSend(v))
                  EXCEPT !.requests[t].i = i, !.requests[t].pc = "threw"]
         ELSE handleFunctionCallLoop(
                  sendResponse(f, v, f.requests[t].functions[i], 0,
                               socketAtSend(v)), v, t, i + 1)
    ELSE [f EXCEPT !.requests[t].i = i, !.requests[t].pc = "fetch",
                   !.posts = Append(@, f.requests[t].functions[i].id)]

\* handleFunctionCall(data) up to its first await.
handleFunctionCall(f, v, functions) ==
    IF functions = <<>> THEN f
    ELSE handleFunctionCallLoop(
             [f EXCEPT !.requests = Append(@, [functions |-> functions, i |-> 0,
                                            pc |-> "run",
                                            conv |-> v.attempts])],
             v, Len(f.requests) + 1, 1)

\* handleFunctionCall after the fetch of entry i has settled with `code`
\* (0: the fetch rejected): the response or, from the catch block, the error
\* payload is sent and the loop goes on.
afterFunctionFetch(f, v, t, code) ==
    IF socketAtSend(v) = "CONNECTING"
    THEN [sendResponse(f, v, f.requests[t].functions[f.requests[t].i], code,
                       socketAtSend(v))
             EXCEPT !.requests[t].pc = "threw"]
    ELSE handleFunctionCallLoop(
             sendResponse(f, v, f.requests[t].functions[f.requests[t].i], code,
                          socketAtSend(v)),
             v, t, f.requests[t].i + 1)

\* VoiceChatButton: useState("idle"), streamRef null.
VoiceChatButton ==
    [state |-> "idle", pc |-> "none", stream |-> "none", event |-> "none",
     error |-> "none", clicks |-> 0, attempts |-> 0]

\* The catch block of startRecording: a toast chosen by error.name, then
\* setState("idle").
startRecordingCatch(r, name) ==
    [r EXCEPT !.state = "idle", !.pc = "none", !.event = "startFailed",
              !.error = name]

\* startRecording after getUserMedia: the analyser and the MediaRecorder are
\* set up (either may throw), then setState("recording").
afterRecorderMedia(r, throws) ==
    IF throws \in {"NotAllowedError", "NotFoundError", "OtherError"}
    THEN startRecordingCatch(r, throws)
    ELSE IF throws = "setup"
    THEN startRecordingCatch([r EXCEPT !.stream = "live"], "OtherError")
    ELSE [r EXCEPT !.stream = "live", !.state = "recording", !.pc = "none",
                   !.event = "recording", !.error = "none"]

\* stopRecording and mediaRecorder.onstop: the tracks are stopped; a
\* recording that is empty or too short goes back to idle, another one is
\* transcribed.
stopRecording(r, tooShort) ==
    [r EXCEPT !.stream = "released", !.event = "stopped",
              !.state = IF tooShort THEN "idle" ELSE "transcribing"]

---------------------------------------------------------------------------
(* Input domains.  Optional arguments are exercised one at a time.         *)

Amounts == {100, 200}

ClientNames == {<<"a", "b", "c">>, <<"b", "c">>, <<"a", "b", "d">>}

CategoryNames == {<<"A", "b">>}

\* <<clientName, categoryName, taxRate>> of addIncome
AddIncomeOptions ==
    {<<n, <<>>, {}>> : n \in ClientNames \cup {<<>>}}
        \cup {<<<<>>, c, {}>> : c \in CategoryNames}
        \cup {<<<<>>, <<>>, {10}>>}

\* <<amount, description, clientId, categoryId>> of updateIncome / updateExpense
UpdateMoneyOptions ==
    {<<a, "none", 0, 0>> : a \in {{}, {100}, {200}}}
        \cup {<<{}, "d2", 0, 0>>, <<{}, "none", 2, 0>>, <<{}, "none", 0, 2>>}

\* <<vendorId, categoryId, taxRate>> of addExpense
AddExpenseOptions ==
    {<<v, 0, {}>> : v \in {0, 1, 2}}
        \cup {<<0, c, {}>> : c \in {2, 3}}
        \cup {<<0, 0, {10}>>}

\* items of createInvoice: one line, two lines with a tax override.
ItemLine == <<[quantity |-> 1, rate |-> 100, taxRate |-> {}]>>

ItemLists ==
    { ItemLine,
      <<[quantity |-> 2, rate |-> 100, taxRate |-> {}],
        [quantity |-> 1, rate |-> 100, taxRate |-> {10}]>> }

\* <<clientId, items, makeRecurring>> of createInvoice; client 1 is u1's
\* own client and a foreign one for u2.
CreateInvoiceOptions ==
    {<<1, items, FALSE>> : items \in ItemLists} \cup {<<1, ItemLine, TRUE>>}

\* <<invoiceId, invoiceNumber>>: by id, by number, neither.
InvoiceRefs == {<<1, 0>>, <<2, 0>>, <<3, 0>>, <<0, 5>>, <<0, 0>>}

PaymentAmounts == {{}, {60}, {500}}

\* <<dueDate, notes>> of updateInvoice
UpdateInvoiceOptions == {<<"none", "none">>, <<"t1", "none">>, <<"t2", "none">>,
                         <<"none", "n2">>}

\* <<frequency, nextDate, endDate>> of updateRecurring; "" clears end_date.
UpdateRecurringOptions ==
    {<<"none", "none", "none">>, <<"monthly", "none", "none">>,
     <<"weekly", "none", "none">>, <<"none", "t1", "none">>,
     <<"none", "t2", "none">>,
     <<"none", "none", "">>, <<"none", "none", "t2">>}

\* Names for new clients, vendors and categories: one taken (up to case) by
\* a seeded row of u1, one free.
NewNames == {<<"a", "B">>, <<"a", "b", "c">>, <<"e">>}

\* <<name, email>> of updateClient
UpdateClientOptions ==
    {<<<<>>, "none">>, <<<<"A", "b", "c">>, "none">>, <<<<>>, "e1">>, <<<<>>, "e2">>}

\* <<name, color>> of updateCategory
UpdateCategoryOptions ==
    {<<<<>>, "none">>, <<<<"a", "b">>, "none">>, <<<<"e">>, "none">>, <<<<>>, "k1">>}

\* <<startDate, endDate>>: absent (0) or a day number.
DatePairs == {<<0, 0>>, <<1, 0>>, <<1, 2>>, <<2, 2>>, <<2, 1>>}

\* What a voice request may name: registered tools, an unregistered name,
\* an inherited key, and no name at all.
FunctionNames == Registry \cup InheritedKeys \cup {"nope", ""}

\* <<amount, startDate, endDate>> of a voice payload; no schema has been
\* applied to it.
RawPayloads == {<<100, 0, 0>>, <<0, 0, 0>>, <<-100, 0, 0>>, <<100, 1, 2>>, <<100, 2, 1>>}

\* Ids a caller may name: a seeded row and the next row to be inserted.
RowIds == {1, 2}

\* The write statement the datastore rejects; previews issue none.
FailModes(confirmed, n) == IF confirmed THEN 0..n ELSE {0}

---------------------------------------------------------------------------
(* The state machine: one action per tool call.                            *)

Scopes == {"income", "expense", "invoice", "recurring", "template", "party",
           "project", "voice", "playback", "client",
           "recorder", "trash", "search", "matcher",
           "preview", "frame", "race",
           "classifier", "functions", "milestone", "payments"}

\* No HTTP exchange: the tool was executed by the chat runtime, which applies
\* the tool's inputSchema before execute.
NoHttp ==
    [code |-> 0, session |-> "none", spoofed |-> FALSE, outcome |-> "none",
     threw |-> FALSE]

\* No call in progress: the previous result has been handed back.
\* The observer of the playback processor.  posted: samples posted so far;
\* clears: 'clear' messages posted; since the last 'clear' was handled (or
\* since construction): handled, the samples appended; played, the samples
\* written to the output; filled, whether the unread count has reached the
\* start threshold; appends, the append messages handled (2: two or more);
\* requested, the frames asked of process since the first of them.  barrier
\* is the last sample posted before the handled 'clear'; raced, whether a
\* 'clear' was posted while samples were still in flight.
NothingHeard ==
    [posted |-> 0, clears |-> 0, handled |-> <<>>, played |-> <<>>,
     filled |-> FALSE, cleared |-> FALSE, barrier |-> 0, appends |-> 0,
     requested |-> 0, compacted |-> FALSE, underrun |-> FALSE, raced |-> FALSE,
     dry |-> FALSE, late |-> 0, block |-> <<>>]

Idle ==
    [tool |-> "none", confirmed |-> "absent", user |-> "none",
     owner |-> "none", status |-> "none", reads |-> 0, writes |-> 0,
     changed |-> FALSE, touched |-> {}, via |-> "none", pre |-> {},
     http |-> NoHttp]

\* Search terms to classify: a run of at most MaxDigits digits with at most
\* one other character before it and one after it.
MaxDigits == 8

Marks == {"@", ".", "x", "-", "+", "(", ")", " ", "\t"}

DigitRun(n) == [i \in 1..n |-> IF i = 1 THEN "0" ELSE "5"]

Terms ==
    {before \o DigitRun(n) \o after :
        n \in 0..MaxDigits,
        before \in {<<>>} \cup {<<m>> : m \in Marks},
        after \in {<<>>} \cup {<<m>> : m \in Marks}}

\* Two conversations that confirm at the same time, and what each has in
\* flight: phase "none" before the call, "read" between its reads and its
\* writes, "done" after it returned; seen is the invoice row it read.
Callers == {1, 2}

NoFlight ==
    [phase |-> "none", tool |-> "none", in |-> <<>>, seen |-> {},
     status |-> "none"]

\* Strings a match score is computed for: every string of at most MaxLen
\* letters, in both cases, the empty string included.
MaxLen == 3

Letters == {"a", "b", "A"}

Strings == UNION {[1..n -> Letters] : n \in 0..MaxLen}

\* No function applied: the inputs drawn, the outputs not yet computed.
NoCalc ==
    [fn |-> "none", search |-> <<>>, target |-> <<>>, score |-> -1,
     kind |-> "none", distance |-> -1]

MatchInputs ==
    {[NoCalc EXCEPT !.search = a, !.target = b] : a \in Strings, b \in Strings}

ClassifierInputs == {[NoCalc EXCEPT !.search = term] : term \in Terms}

\* The scopes in which the voice agent button runs.
ClientScopes == {"client", "functions"}

\* FunctionCallRequest messages handled in one behaviour.
MaxRequests == 1

\* No FunctionCallRequest received yet.
NoFunctionCalls == [requests |-> <<>>, log |-> <<>>, sent |-> <<>>, posts |-> <<>>]

\* An entry of data.functions; the ids of the n-th request are 10n + 1,
\* 10n + 2.
FunctionEntry(n, k, client_side, arguments) ==
    [id |-> 10 * n + k,
     name |-> IF k = 1 THEN "searchClients" ELSE "addIncome",
     client_side |-> client_side, arguments |-> arguments]

FunctionLists(n) ==
    {<<>>,
     <<FunctionEntry(n, 1, TRUE, "json"), FunctionEntry(n, 2, TRUE, "json")>>,
     <<FunctionEntry(n, 1, FALSE, "json"), FunctionEntry(n, 2, TRUE, "json")>>,
     <<FunctionEntry(n, 1, TRUE, "malformed"), FunctionEntry(n, 2, TRUE, "json")>>}

Init ==
    /\ scope \in Scopes
    /\ db = IF scope = "trash" THEN TrashedDb ELSE SeedDb
    /\ last = Idle
    /\ ops = 0
    /\ player = PCMPlayerProcessor
    /\ port = <<>>
    /\ obs = NothingHeard
    /\ vc = VoiceAgentButton
    /\ rec = VoiceChatButton
    /\ calc \in IF scope = "matcher" THEN MatchInputs
                ELSE IF scope = "classifier" THEN ClassifierInputs
                ELSE {NoCalc}
    /\ shown = <<>>
    /\ flight = [p \in Callers |-> NoFlight]
    /\ fc = NoFunctionCalls

\* One tool call, run to completion; `last` records what it did.  A call is
\* taken while the write budget lasts or when it changes nothing.
\* The tools whose result for a rejected insert carries error.message, the
\* text of the datastore's error, as `details` or `message`; the other
\* tools return a fixed text only.
RawDetailTools ==
    {"addIncome", "addExpense", "addClient", "addVendor", "createProject",
     "updateProject"}

\* "rawError" when the result of a rejected write carries the datastore's
\* error text.
ErrorTags(tool, o) ==
    IF o.status = "error" /\ o.writes > 0 /\ tool \in RawDetailTools
    THEN {"rawError"} ELSE {}

Returned(tool, flag, user, owner, o, via, pre, http) ==
    /\ last = Idle
    /\ o.db = db \/ ops < MaxOps
    /\ db' = o.db
    /\ ops' = IF o.db = db THEN ops ELSE ops + 1
    /\ last' = [tool |-> tool, confirmed |-> flag, user |-> user,
                owner |-> owner, status |-> o.status, reads |-> o.reads,
                writes |-> o.writes, changed |-> (o.db # db),
                touched |-> o.touched, via |-> via,
                pre |-> pre \cup ErrorTags(tool, o), http |-> http]
    /\ UNCHANGED <<scope, playback, voiceClient, calc, flight, fc>>

CallVia(tool, flag, user, owner, o, via, pre, http) ==
    /\ Returned(tool, flag, user, owner, o, via, pre, http)
    /\ UNCHANGED shown

Call(tool, flag, user, owner, o) ==
    CallVia(tool, flag, user, owner, o, "direct", {}, NoHttp)

Flag(b) == IF b THEN "true" ELSE "false"

\* What held of the target row before the call (and, for deletes and
\* resolvers, what the call made of it), recorded for the properties:
\* "same" when every requested value is absent or equal to the stored one,
\* "paid" when the target is a paid invoice.
SameAs(requested, stored, absent) == requested = absent \/ requested = stored

Tags(same, paid) ==
    (IF same THEN {"same"} ELSE {}) \cup (IF paid THEN {"paid"} ELSE {})

\* What held of a payment request: "exceeds" when the invoice is open and
\* the amount asked for is larger than what is due on it.
PaymentTags(found, paymentAmount) ==
    IF /\ found # {}
       /\ paymentAmount # {}
       /\ \E invoice \in found :
             /\ invoice.status # "paid"
             /\ The(paymentAmount) >
                    (IF invoice.balance_due # 0 THEN invoice.balance_due
                     ELSE invoice.total)
    THEN {"exceeds"} ELSE {}

\* What held of the rows with the target id: "absent" when there is none,
\* "foreign" when it belongs to another user, "deleted" when it carries a
\* tombstone.
TargetTags(rows, userId, dead) ==
    (IF rows = {} THEN {"absent"} ELSE {})
        \cup (IF \E r \in rows : r.user_id # userId THEN {"foreign"} ELSE {})
        \cup (IF rows \cap dead # {} THEN {"deleted"} ELSE {})

\* What held of the name of a create call: "taken" when a live row of the
\* caller in `rows` has that name up to case, "takenInKind" when such a row
\* is among `kind` (the rows of the same type).
NameTags(rows, kind, userId, name) ==
    LET taken == {r \in rows : /\ r.user_id = userId /\ ~r.deleted
                                /\ toLowerCase(r.name) = toLowerCase(name)}
    IN  (IF taken # {} THEN {"taken"} ELSE {})
            \cup (IF taken \cap kind # {} THEN {"takenInKind"} ELSE {})

\* What a resolver made of its pool: "belowThreshold" when it returned a
\* suggestion scoring under 50, "poolAllLow" when no candidate it scored
\* reached 50 (an empty pool included), "poolEmpty" when it scored none,
\* "noSuggestions" when it returned none.
ResolverTags(scored, matches) ==
    (IF \E m \in matches : m.score < 50 THEN {"belowThreshold"} ELSE {})
        \cup (IF scored = {} THEN {"poolEmpty"} ELSE {})
        \cup (IF \A m \in scored : m.score < 50 THEN {"poolAllLow"} ELSE {})
        \cup (IF matches = {} THEN {"noSuggestions"} ELSE {})

\* What a search by email or phone returned: "byEmail" / "byPhone" for the
\* type of the term, "fieldExact" when a returned candidate's field equals
\* the term, "fieldPart" when one's field only contains it; "offField"
\* when a returned candidate's field does not match the term (for a phone,
\* with the formatting stripped and in either direction), "exactNot100"
\* and "partNot90" when the scores are not those of the rule.
FieldTags(searchTerm, matches) ==
    LET type == detectSearchType(searchTerm)
        term == toLowerCase(searchTerm)
        fields == {[value |-> toLowerCase(SeedContacts(m.id)[type]),
                    score |-> m.score] : m \in matches}
    IN  IF type = "name" THEN {}
        ELSE {IF type = "email" THEN "byEmail" ELSE "byPhone"}
            \cup (IF \E f \in fields : f.value = term THEN {"fieldExact"} ELSE {})
            \cup (IF \E f \in fields : f.value # term THEN {"fieldPart"} ELSE {})
            \cup (IF \E f \in fields : f.value = term /\ f.score # 100
                  THEN {"exactNot100"} ELSE {})
            \cup (IF \E f \in fields : f.value # term /\ f.score # 90
                  THEN {"partNot90"} ELSE {})
            \cup (IF \E f \in fields :
                        IF type = "email" THEN ~includes(f.value, term)
                        ELSE /\ ~includes(stripPhone(f.value), stripPhone(term))
                             /\ ~includes(stripPhone(term), stripPhone(f.value))
                  THEN {"offField"} ELSE {})

\* What a tool took as the matched entity, among the candidates with their
\* scores: "matched" when it took one, "matchedUnder85" when that one
\* scores below 85, "matchedNotTop" when another candidate scores higher.
MatchTags(matchedIds, scored) ==
    LET taken == {m \in scored : m.id \in matchedIds}
    IN  (IF matchedIds # {} THEN {"matched"} ELSE {})
            \cup (IF \E m \in taken : m.score < 85 THEN {"matchedUnder85"} ELSE {})
            \cup (IF \E m \in taken : \E o \in scored : o.score > m.score
                  THEN {"matchedNotTop"} ELSE {})

\* The scores of a user's live rows of `table` against a name.
NameScores(table, userId, name) ==
    {[id |-> c.id, score |-> calculateLevenshteinScore(name, c.name)] :
        c \in {r \in table : r.user_id = userId /\ ~r.deleted}}

\* What became of the target of a delete: "tombstoned" when the row is still
\* there and marked, "removed" when it is gone.
FateTags(before, after) ==
    (IF before # {} /\ after = {} THEN {"removed"} ELSE {})
        \cup (IF \E r \in after : r.deleted_at # 0 THEN {"tombstoned"} ELSE {})

\* The column `col` when a value is requested for it that is not the
\* stored one.
Differs(col, requested, stored, absent) ==
    IF requested # absent /\ requested # stored THEN {col} ELSE {}

\* What an update did to the datastore, given the columns of the target for
\* which a different value was supplied and the columns derived from them:
\* "frameApplied" when a row of `table` changed, "frameDerived" when a
\* derived column changed, "frameBroken" when another table, the set of
\* rows, or a column outside the two sets changed.
FrameTags(before, after, table, supplied, derived) ==
    LET changedCols == UNION {{f \in DOMAIN r :
                                 \E old \in RowsById(before[table], r.id) :
                                     r[f] # old[f]} : r \in after[table]}
    IN  (IF changedCols # {} THEN {"frameApplied"} ELSE {})
            \cup (IF changedCols \cap derived # {} THEN {"frameDerived"} ELSE {})
            \cup (IF \/ \E t \in DOMAIN before \ {table} : after[t] # before[t]
                     \/ {r.id : r \in after[table]} # {r.id : r \in before[table]}
                     \/ ~(changedCols \subseteq supplied \cup derived)
                  THEN {"frameBroken"} ELSE {})

Updated(tool, flag, userId, owner, o, table, supplied, derived, tags) ==
    CallVia(tool, flag, userId, owner, o, "direct",
            tags \cup FrameTags(db, o.db, table, supplied, derived), NoHttp)

\* What a creation left behind: "headerWithoutItems" when an invoice was
\* added and no line item refers to it.
HeaderTags(before, after) ==
    IF \E inv \in after.invoices \ before.invoices :
          ~\E it \in after.invoice_items : it.invoice_id = inv.id
    THEN {"headerWithoutItems"} ELSE {}

CreatedInvoice(tool, flag, userId, o) ==
    CallVia(tool, flag, userId, getEffectiveUserId(userId), o, "direct",
            HeaderTags(db, o.db), NoHttp)

AddIncome ==
    /\ scope = "income"
    /\ \E amount \in Amounts, opt \in AddIncomeOptions,
          confirmed \in BOOLEAN, userId \in Users :
          \E fail \in FailModes(confirmed, 1) :
          LET in == [amount |-> amount, description |-> "d1",
                     clientName |-> opt[1], categoryName |-> opt[2],
                     taxRate |-> opt[3], confirmed |-> confirmed,
                     userId |-> userId]
          IN  CallVia("addIncome", Flag(confirmed), userId, userId,
                      addIncome(db, in, fail), "direct",
                      IF opt[1] = <<>> THEN {}
                      ELSE ResolverTags(clientScores(db, userId, opt[1]),
                                        clientSuggestions(db, userId, opt[1]))
                               \cup MatchTags({c.id : c \in MatchClientByName(db, userId, opt[1])},
                                              NameScores(db.clients, userId, opt[1])),
                      NoHttp)

UpdateIncome ==
    /\ scope \in {"income", "trash"}
    /\ \E incomeId \in RowIds, opt \in UpdateMoneyOptions,
          confirmed \in BOOLEAN, userId \in Users :
          \E fail \in FailModes(confirmed, 1) :
          LET in == [incomeId |-> incomeId, amount |-> opt[1],
                     description |-> opt[2], clientId |-> opt[3],
                     categoryId |-> opt[4], confirmed |-> confirmed,
                     userId |-> userId]
              found == {r \in db.income : r.id = incomeId /\ r.user_id = userId}
              same == /\ found # {}
                      /\ opt[1] \in {{}, {The(found).amount}}
                      /\ SameAs(opt[2], The(found).description, "none")
                      /\ SameAs(opt[3], The(found).client_id, 0)
                      /\ SameAs(opt[4], The(found).category_id, 0)
              supplied == IF found = {} THEN {}
                          ELSE Differs("amount", opt[1], {The(found).amount}, {})
                            \cup Differs("description", opt[2], The(found).description, "none")
                            \cup Differs("client_id", opt[3], The(found).client_id, 0)
                            \cup Differs("category_id", opt[4], The(found).category_id, 0)
          IN  Updated("updateIncome", Flag(confirmed), userId, userId,
                      updateIncome(db, in, fail), "income", supplied,
                      IF "amount" \in supplied THEN {"base_amount"} ELSE {},
                      Tags(same, FALSE)
                          \cup TargetTags(RowsById(db.income, incomeId), userId,
                                          {r \in db.income : r.deleted}))

AddExpense ==
    /\ scope = "expense"
    /\ \E amount \in Amounts, opt \in AddExpenseOptions,
          confirmed \in BOOLEAN, userId \in Users :
          \E fail \in FailModes(confirmed, 1) :
          LET in == [amount |-> amount, description |-> "d1",
                     vendorId |-> opt[1], categoryId |-> opt[2],
                     taxRate |-> opt[3], confirmed |-> confirmed,
                     userId |-> userId]
          IN  Call("addExpense", Flag(confirmed), userId, userId,
                   addExpense(db, in, fail))

UpdateExpense ==
    /\ scope \in {"expense", "trash"}
    /\ \E expenseId \in RowIds, opt \in UpdateMoneyOptions,
          confirmed \in BOOLEAN, userId \in Users :
          \E fail \in FailModes(confirmed, 1) :
          LET in == [expenseId |-> expenseId, amount |-> opt[1],
                     description |-> opt[2], vendorId |-> opt[3],
                     categoryId |-> opt[4], confirmed |-> confirmed,
                     userId |-> userId]
              found == OwnLiveById(db.expenses, expenseId, userId)
              same == /\ found # {}
                      /\ opt[1] \in {{}, {The(found).amount}}
                      /\ SameAs(opt[2], The(found).description, "none")
                      /\ SameAs(opt[3], The(found).vendor_id, 0)
                      /\ SameAs(opt[4], The(found).category_id, 0)
              target == {r \in db.expenses : r.id = expenseId /\ r.user_id = userId}
              supplied == IF target = {} THEN {}
                          ELSE Differs("amount", opt[1], {The(target).amount}, {})
                            \cup Differs("description", opt[2], The(target).description, "none")
                            \cup Differs("vendor_id", opt[3], The(target).vendor_id, 0)
                            \cup Differs("category_id", opt[4], The(target).category_id, 0)
          IN  Updated("updateExpense", Flag(confirmed), userId, userId,
                      updateExpense(db, in, fail), "expenses", supplied,
                      IF "amount" \in supplied THEN {"base_amount"} ELSE {},
                      Tags(same, FALSE)
                          \cup TargetTags(RowsById(db.expenses, expenseId), userId,
                                          {r \in db.expenses : r.deleted}))

CreateInvoice ==
    /\ scope = "invoice"
    /\ \E opt \in CreateInvoiceOptions, confirmed \in BOOLEAN, userId \in Users :
          \E fail \in FailModes(confirmed, 2) :
          LET in == [clientId |-> opt[1], items |-> opt[2], dueDate |-> "t1",
                     notes |-> "n1", makeRecurring |-> opt[3],
                     frequency |-> IF opt[3] THEN "monthly" ELSE "none",
                     confirmed |-> confirmed, userId |-> userId]
          IN  CreatedInvoice("createInvoice", Flag(confirmed), userId,
                             createInvoice(db, in, fail))

MarkInvoicePaid ==
    /\ scope \in {"invoice", "payments"}
    /\ \E ref \in InvoiceRefs, paymentAmount \in PaymentAmounts,
          confirmed \in BOOLEAN, userId \in Users :
          \E fail \in FailModes(confirmed, 2) :
          LET in == [invoiceId |-> ref[1], invoiceNumber |-> ref[2],
                     paymentAmount |-> paymentAmount,
                     confirmed |-> confirmed, userId |-> userId]
              found == FindInvoice(db, getEffectiveUserId(userId), ref[1], ref[2])
              paid == found # {} /\ The(found).status = "paid"
          IN  CallVia("markInvoicePaid", Flag(confirmed), userId,
                      getEffectiveUserId(userId), markInvoicePaid(db, in, fail),
                      "direct",
                      Tags(FALSE, paid) \cup PaymentTags(found, paymentAmount),
                      NoHttp)

UpdateInvoice ==
    /\ scope = "invoice"
    /\ \E ref \in InvoiceRefs, opt \in UpdateInvoiceOptions,
          confirmed \in BOOLEAN, userId \in Users :
          \E fail \in FailModes(confirmed, 1) :
          LET in == [invoiceId |-> ref[1], invoiceNumber |-> ref[2],
                     dueDate |-> opt[1], notes |-> opt[2],
                     confirmed |-> confirmed, userId |-> userId]
              found == FindInvoice(db, getEffectiveUserId(userId), ref[1], ref[2])
              paid == found # {} /\ The(found).status = "paid"
              same == /\ found # {}
                      /\ SameAs(opt[1], The(found).due_date, "none")
                      /\ SameAs(opt[2], The(found).notes, "none")
              supplied == IF found = {} THEN {}
                          ELSE Differs("due_date", opt[1], The(found).due_date, "none")
                            \cup Differs("notes", opt[2], The(found).notes, "none")
          IN  Updated("updateInvoice", Flag(confirmed), userId,
                      getEffectiveUserId(userId), updateInvoice(db, in, fail),
                      "invoices", supplied, {}, Tags(same, paid))

ToggleRecurring ==
    /\ scope = "recurring"
    /\ \E recurringId \in RowIds, isActive \in BOOLEAN,
          confirmed \in BOOLEAN, userId \in Users :
          \E fail \in FailModes(confirmed, 1) :
          LET in == [recurringId |-> recurringId, isActive |-> isActive,
                     confirmed |-> confirmed, userId |-> userId]
              found == FindRecurring(db, getEffectiveUserId(userId), recurringId)
              same == found # {} /\ isActive = The(found).is_active
          IN  CallVia("toggleRecurring", Flag(confirmed), userId,
                      getEffectiveUserId(userId), toggleRecurring(db, in, fail),
                      "direct", Tags(same, FALSE), NoHttp)

UpdateRecurring ==
    /\ scope = "recurring"
    /\ \E recurringId \in RowIds, opt \in UpdateRecurringOptions,
          confirmed \in BOOLEAN, userId \in Users :
          \E fail \in FailModes(confirmed, 1) :
          LET in == [recurringId |-> recurringId, frequency |-> opt[1],
                     nextDate |-> opt[2], endDate |-> opt[3],
                     confirmed |-> confirmed, userId |-> userId]
              found == FindRecurring(db, getEffectiveUserId(userId), recurringId)
              same == /\ found # {}
                      /\ SameAs(opt[1], The(found).frequency, "none")
                      /\ SameAs(opt[2], The(found).next_date, "none")
                      /\ \/ opt[3] = "none"
                         \/ (IF opt[3] = "" THEN "none" ELSE opt[3]) = The(found).end_date
              supplied == IF found = {} THEN {}
                          ELSE Differs("frequency", opt[1], The(found).frequency, "none")
                            \cup Differs("next_date", opt[2], The(found).next_date, "none")
                            \cup Differs("end_date",
                                         IF opt[3] = "" THEN "" ELSE opt[3],
                                         The(found).end_date, "none")
          IN  Updated("updateRecurring", Flag(confirmed), userId,
                      getEffectiveUserId(userId), updateRecurring(db, in, fail),
                      "recurring_invoices", supplied, {}, Tags(same, FALSE))

DeleteRecurring ==
    /\ scope = "recurring"
    /\ \E recurringId \in RowIds, confirmed \in BOOLEAN, userId \in Users :
          \E fail \in FailModes(confirmed, 1) :
          LET in == [recurringId |-> recurringId, confirmed |-> confirmed,
                     userId |-> userId]
          IN  CallVia("deleteRecurring", Flag(confirmed), userId,
                      getEffectiveUserId(userId), deleteRecurring(db, in, fail),
                      "direct",
                      IF RowsById(db.recurring_invoices, recurringId) # {}
                            /\ RowsById(deleteRecurring(db, in, fail).db.recurring_invoices,
                                        recurringId) = {}
                      THEN {"removed"} ELSE {},
                      NoHttp)

SaveAsTemplate ==
    /\ scope = "template"
    /\ \E ref \in InvoiceRefs, userId \in Users, fail \in {0, 1} :
          LET in == [invoiceId |-> ref[1], invoiceNumber |-> ref[2],
                     templateName |-> "m2", userId |-> userId]
          IN  Call("saveAsTemplate", "absent", userId,
                   getEffectiveUserId(userId), saveAsTemplate(db, in, fail))

UpdateTemplate ==
    /\ scope = "template"
    /\ \E templateId \in RowIds, name \in {"m1", "m2"}, userId \in Users,
          fail \in {0, 1} :
          LET in == [templateId |-> templateId, name |-> name, userId |-> userId]
          IN  Call("updateTemplate", "absent", userId,
                   getEffectiveUserId(userId), updateTemplate(db, in, fail))

CreateFromTemplate ==
    /\ scope = "template"
    /\ \E templateId \in RowIds, clientId \in {1, 2},
          confirmed \in BOOLEAN, userId \in Users :
          \E fail \in FailModes(confirmed, 3) :
          LET in == [templateId |-> templateId, clientId |-> clientId,
                     confirmed |-> confirmed, userId |-> userId]
          IN  CreatedInvoice("createFromTemplate", Flag(confirmed), userId,
                             createFromTemplate(db, in, fail))

AddClient ==
    /\ scope = "party"
    /\ \E name \in NewNames, userId \in Users, fail \in {0, 1} :
          LET in == [name |-> name, email |-> "e2", userId |-> userId]
          IN  CallVia("addClient", "absent", userId, userId,
                      addClient(db, in, fail), "direct",
                      NameTags(db.clients, db.clients, userId, name), NoHttp)

UpdateClient ==
    /\ scope = "party"
    /\ \E clientId \in {1, 2, 3}, opt \in UpdateClientOptions,
          confirmed \in BOOLEAN, userId \in Users :
          \E fail \in FailModes(confirmed, 1) :
          LET in == [clientId |-> clientId, name |-> opt[1], email |-> opt[2],
                     confirmed |-> confirmed, userId |-> userId]
              found == OwnLiveById(db.clients, clientId, userId)
              same == /\ found # {}
                      /\ SameAs(opt[1], The(found).name, <<>>)
                      /\ SameAs(opt[2], The(found).email, "none")
              supplied == IF found = {} THEN {}
                          ELSE Differs("name", opt[1], The(found).name, <<>>)
                            \cup Differs("email", opt[2], The(found).email, "none")
          IN  Updated("updateClient", Flag(confirmed), userId, userId,
                      updateClient(db, in, fail), "clients", supplied, {},
                      Tags(same, FALSE)
                          \cup TargetTags(RowsById(db.clients, clientId), userId,
                                          {r \in db.clients : r.deleted}))

AddVendor ==
    /\ scope = "party"
    /\ \E name \in NewNames, userId \in Users, fail \in {0, 1} :
          LET in == [name |-> name, userId |-> userId]
          IN  CallVia("addVendor", "absent", userId, userId,
                      addVendor(db, in, fail), "direct",
                      NameTags(db.vendors, db.vendors, userId, name), NoHttp)

AddCategory ==
    /\ scope = "party"
    /\ \E name \in {<<"a", "B">>, <<"e">>}, type \in {"income", "expense"}, userId \in Users,
          fail \in {0, 1} :
          LET in == [name |-> name, type |-> type, color |-> "none",
                     userId |-> userId]
          IN  CallVia("addCategory", "absent", userId, userId,
                      addCategory(db, in, fail), "direct",
                      NameTags(db.categories,
                               {c \in db.categories : c.type = type}, userId, name),
                      NoHttp)

UpdateCategory ==
    /\ scope = "party"
    /\ \E categoryId \in {1, 2}, opt \in UpdateCategoryOptions,
          userId \in Users, fail \in {0, 1} :
          LET in == [categoryId |-> categoryId, name |-> opt[1], color |-> opt[2],
                     userId |-> userId]
          IN  Call("updateCategory", "absent", userId, userId,
                   updateCategory(db, in, fail))

CreateProject ==
    /\ scope = "project"
    /\ \E name \in NewNames, clientName \in {<<>>, <<"b", "c">>},
          dates \in DatePairs, confirmed \in BOOLEAN, userId \in Users :
          \E fail \in FailModes(confirmed, 1) :
          LET in == [name |-> name, clientName |-> clientName,
                     startDate |-> dates[1], endDate |-> dates[2],
                     confirmed |-> confirmed, userId |-> userId]
          IN  CallVia("createProject", Flag(confirmed), userId, userId,
                      createProject(db, in, fail), "direct",
                      (IF createProjectDatesInvalid(in) THEN {"malformed"} ELSE {})
                          \cup NameTags(db.projects, db.projects, userId, name),
                      NoHttp)

\* One of the four delete tools of projects.ts on `table`; the time of the
\* call grows with every write.
DeleteChild(tool, table, in, o) ==
    CallVia(tool, Flag(in.confirmed), in.userId, in.userId, o, "direct",
            TargetTags(RowsById(db[table], in.id), in.userId,
                       {r \in db[table] : r.deleted_at # 0})
                \cup FateTags(RowsById(db[table], in.id), RowsById(o.db[table], in.id)),
            NoHttp)

DeleteInputs ==
    {[id |-> id, confirmed |-> confirmed, userId |-> userId, now |-> ops + 1] :
        id \in RowIds, confirmed \in BOOLEAN, userId \in Users}

DeleteMilestone ==
    /\ scope = "trash"
    /\ \E in \in DeleteInputs, fail \in {0, 1} :
          DeleteChild("deleteMilestone", "project_milestones", in,
                      deleteMilestone(db, in, IF in.confirmed THEN fail ELSE 0))

DeleteGoal ==
    /\ scope = "trash"
    /\ \E in \in DeleteInputs, fail \in {0, 1} :
          DeleteChild("deleteGoal", "project_goals", in,
                      deleteGoal(db, in, IF in.confirmed THEN fail ELSE 0))

DeleteTimeEntry ==
    /\ scope = "trash"
    /\ \E in \in DeleteInputs, fail \in {0, 1} :
          DeleteChild("deleteTimeEntry", "project_time_entries", in,
                      deleteTimeEntry(db, in, IF in.confirmed THEN fail ELSE 0))

DeleteProjectNote ==
    /\ scope = "trash"
    /\ \E in \in DeleteInputs, fail \in {0, 1} :
          DeleteChild("deleteProjectNote", "project_notes", in,
                      deleteProjectNote(db, in, IF in.confirmed THEN fail ELSE 0))

\* What a search is asked for: a name in another case, a near miss, a
\* company name, part of an address, an email address, a phone number, and
\* a term that matches nothing.
SearchTerms ==
    {<<"a", "b", "c">>, <<"a", "b", "d">>, <<"x", "y", "c", "o">>, <<"r", "s">>,
     <<"a", "@", "b", ".", "c">>, <<"5", "5", "5", "1", "2", "3", "4">>,
     <<"@", "B", ".", "c">>, <<"5", "5", "5", "-", "1", "2", "3", "4">>,
     <<"z", "z", "z", "z", "z">>}

\* Callers of a search: the two users and t1, who has no rows.
Searchers == Users \cup {"t1"}

Search(tool, userId, o) ==
    CallVia(tool, "absent", userId, userId, o, "direct",
            ResolverTags(o.scored, o.matches)
                \cup MatchTags({m.id : m \in o.bestMatch}, o.scored),
            NoHttp)

SearchParty(tool, userId, searchTerm, o) ==
    CallVia(tool, "absent", userId, userId, o, "direct",
            ResolverTags(o.scored, o.matches)
                \cup MatchTags({m.id : m \in o.bestMatch}, o.scored)
                \cup FieldTags(searchTerm, o.matches),
            NoHttp)

SearchClients ==
    /\ scope = "search"
    /\ \E searchTerm \in SearchTerms, limit \in {1, 5}, userId \in Searchers :
          SearchParty("searchClients", userId, searchTerm,
                      searchClients(db, [searchTerm |-> searchTerm, limit |-> limit,
                                         userId |-> userId]))

SearchVendors ==
    /\ scope = "search"
    /\ \E searchTerm \in SearchTerms, limit \in {1, 5}, userId \in Searchers :
          SearchParty("searchVendors", userId, searchTerm,
                      searchVendors(db, [searchTerm |-> searchTerm, limit |-> limit,
                                         userId |-> userId]))

SearchProjects ==
    /\ scope = "search"
    /\ \E query \in SearchTerms, clientName \in {<<>>, <<"b", "c">>},
          limit \in {1, 10}, userId \in Searchers :
          Search("searchProjects", userId,
                 searchProjects(db, [query |-> query, clientName |-> clientName,
                                     limit |-> limit, userId |-> userId]))

\* A call that came in over HTTP, recorded with the response to it.
VoiceCall(functionName, flag, session, spoofed, pre, res) ==
    CallVia(functionName, flag, res.userId, res.userId, res.o, "voice", pre,
            [code |-> res.code, session |-> session, spoofed |-> spoofed,
             outcome |-> res.outcome, threw |-> res.threw])

\* POST /api/voice-agent/function: the request names a function and carries
\* its parameters, unvalidated, with any userId.
VoiceFunctionCall ==
    /\ scope = "voice"
    /\ \E session \in Users \cup {"none"}, functionName \in FunctionNames,
          paramUser \in Users \cup {"none"}, payload \in RawPayloads,
          confirmed \in BOOLEAN :
          \E fail \in FailModes(confirmed, 1) :
          LET parameters ==
                  [amount |-> payload[1], description |-> "d1", clientName |-> <<>>,
                   categoryName |-> <<>>, taxRate |-> {}, vendorId |-> 0,
                   categoryId |-> 0, name |-> <<"e">>, startDate |-> payload[2],
                   endDate |-> payload[3], confirmed |-> confirmed,
                   userId |-> paramUser]
              body == [functionName |-> functionName, parameters |-> parameters]
              malformed ==
                  \/ functionName \in {"addIncome", "addExpense"}
                        /\ ~amountSchema(parameters)
                  \/ functionName = "createProject"
                        /\ createProjectDatesInvalid(parameters)
          IN  VoiceCall(functionName,
                        IF functionName \in Registry THEN Flag(confirmed) ELSE "absent",
                        session, paramUser \notin {"none", session},
                        IF malformed THEN {"malformed"} ELSE {},
                        POST(db, session, body, fail))

\* Frames posted in one message: a short one and one that fills the
\* pre-buffer on its own.
BlockSizes == {1, MIN_BUFFER_TO_START}

NonSilent(channel) == SelectSeq(channel, LAMBDA x : x # 0)

\* ws.onmessage with a binary frame: handleAudioData converts it and posts
\* the samples to the worklet port.
HandleAudioData ==
    /\ scope = "playback"
    /\ Len(port) < MaxInFlight
    /\ \E n \in BlockSizes :
          /\ obs.posted + n <= MaxSamples
          /\ port' = postMessage(port, SamplesMessage(obs.posted + 1, n))
          /\ obs' = [obs EXCEPT !.posted = @ + n]
    /\ UNCHANGED <<db, last, ops, scope, player, voiceClient, calc, shown, flight, fc>>

\* handleMessage, case "UserStartedSpeaking": post 'clear' to the worklet.
UserStartedSpeaking ==
    /\ scope = "playback"
    /\ Len(port) < MaxInFlight
    /\ obs.clears < MaxClears
    /\ port' = postMessage(port, ClearMessage(obs.posted))
    /\ obs' = [obs EXCEPT !.clears = @ + 1,
                          !.raced = @ \/ \E i \in 1..Len(port) : ~port[i].clear]
    /\ UNCHANGED <<db, last, ops, scope, player, voiceClient, calc, shown, flight, fc>>

\* What the observer notes when the processor has handled `data`.
Heard(o, data, before, after) ==
    IF data.clear
    THEN [o EXCEPT !.handled = <<>>, !.played = <<>>, !.filled = FALSE,
                   !.cleared = TRUE, !.barrier = data.mark, !.appends = 0,
                   !.requested = 0, !.dry = FALSE, !.late = 0]
    ELSE [o EXCEPT !.handled = @ \o data.samples,
                   !.filled = @ \/ Len(before.buffer) + Len(data.samples)
                                      - before.readIndex >= MIN_BUFFER_TO_START,
                   !.appends = Min2(2, @ + 1),
                   !.requested = 0,
                   !.compacted = @ \/ after.readIndex < before.readIndex,
                   !.late = IF o.dry THEN @ + Len(data.samples) ELSE @]

\* The worklet's port delivers the oldest message in flight.
OnMessage ==
    /\ scope = "playback"
    /\ port # <<>>
    /\ player' = onmessage(player, Head(port))
    /\ port' = Tail(port)
    /\ obs' = Heard(obs, Head(port), player, player')
    /\ UNCHANGED <<db, last, ops, scope, voiceClient, calc, shown, flight, fc>>

\* What the observer notes of one render quantum.
Rendered(o, before, channel) ==
    [o EXCEPT !.played = @ \o NonSilent(channel),
              !.requested = Min2(Len(o.handled), @ + Len(channel)),
              !.underrun = @ \/ (before.isPlaying /\ 0 \in {channel[i] : i \in 1..Len(channel)}),
              !.dry = @ \/ (before.isPlaying /\ 0 \in {channel[i] : i \in 1..Len(channel)}),
              !.block = channel]

\* The audio thread renders one quantum.
Process ==
    /\ scope = "playback"
    /\ player' = process(player).p
    /\ obs' = Rendered(obs, player, process(player).channel)
    /\ UNCHANGED <<db, last, ops, scope, port, voiceClient, calc, shown, flight, fc>>

\* The user presses the conversation button: start when idle, stop
\* otherwise.  One startConversation at a time is followed.
ToggleConversation ==
    /\ scope \in ClientScopes
    /\ vc.state = "idle" => (vc.clicks < MaxStarts /\ vc.pc = "none")
    /\ vc' = toggleConversation(vc)
    /\ UNCHANGED <<db, last, ops, scope, playback, rec, calc, shown, flight, fc>>

\* startConversation resumes after an await; the awaited call or one of the
\* constructors that follow it may throw.
StartStep ==
    /\ scope \in ClientScopes
    /\ \/ vc.pc = "fetch"
          /\ \E throws \in {"none", "fetch"} : vc' = afterFetch(vc, throws)
       \/ vc.pc = "getUserMedia"
          /\ \E throws \in {"none", "getUserMedia", "audioContext"} :
                vc' = afterGetUserMedia(vc, throws)
       \/ vc.pc = "addModule"
          /\ \E throws \in {"none", "addModule", "socket"} :
                vc' = afterAddModule(vc, throws)
    /\ UNCHANGED <<db, last, ops, scope, playback, rec, calc, shown, flight, fc>>

\* The socket, created and not yet closed, opens.
WsOpen ==
    /\ scope \in ClientScopes
    /\ vc.readyState = "CONNECTING"
    /\ vc' = onopen(vc)
    /\ UNCHANGED <<db, last, ops, scope, playback, rec, calc, shown, flight, fc>>

\* The socket fails, before or after it opened.
WsError ==
    /\ scope \in ClientScopes
    /\ vc.readyState \in {"CONNECTING", "OPEN"}
    /\ vc' = onerror(SocketGone(vc))
    /\ UNCHANGED <<db, last, ops, scope, playback, rec, calc, shown, flight, fc>>

\* The peer closes the socket.
WsClose ==
    /\ scope \in ClientScopes
    /\ vc.readyState = "OPEN"
    /\ vc' = onclose(SocketGone(vc))
    /\ UNCHANGED <<db, last, ops, scope, playback, rec, calc, shown, flight, fc>>

\* ws.onmessage with a FunctionCallRequest: setState("thinking"), then
\* handleFunctionCall runs up to its first await.
FunctionCallRequest ==
    /\ scope = "functions"
    /\ vc.readyState = "OPEN"
    /\ "ws" \in vc.refs
    /\ Len(fc.requests) < MaxRequests
    /\ vc' = [vc EXCEPT !.state = "thinking", !.event = "functionCall"]
    /\ \E functions \in FunctionLists(Len(fc.requests) + 1) :
          fc' = handleFunctionCall(fc, vc, functions)
    /\ UNCHANGED <<db, last, ops, scope, playback, rec, calc, shown, flight>>

\* The fetch of /api/voice-agent/function settles: with a result, with a
\* status that is not ok, or rejected.
FunctionFetchSettles ==
    /\ scope = "functions"
    /\ \E t \in 1..Len(fc.requests) :
          /\ fc.requests[t].pc = "fetch"
          /\ \E code \in {200, 500, 0} :
                fc' = afterFunctionFetch(fc, vc, t, code)
    /\ UNCHANGED <<db, last, ops, scope, playback, voiceClient, calc, shown,
                   flight>>

\* handleMouseDown on the push-to-talk button: startRecording up to its
\* await of getUserMedia.
StartRecording ==
    /\ scope = "recorder"
    /\ rec.state = "idle"
    /\ rec.pc = "none"
    /\ rec.clicks < MaxStarts
    /\ rec' = [rec EXCEPT !.pc = "getUserMedia", !.clicks = @ + 1,
                          !.attempts = @ + 1, !.event = "started"]
    /\ UNCHANGED <<db, last, ops, scope, playback, vc, calc, shown, flight, fc>>

\* getUserMedia settles.
RecorderStep ==
    /\ scope = "recorder"
    /\ rec.pc = "getUserMedia"
    /\ \E throws \in {"none", "NotAllowedError", "NotFoundError", "OtherError", "setup"} :
          rec' = afterRecorderMedia(rec, throws)
    /\ UNCHANGED <<db, last, ops, scope, playback, vc, calc, shown, flight, fc>>

\* handleMouseUp while recording.
StopRecording ==
    /\ scope = "recorder"
    /\ rec.state = "recording"
    /\ \E tooShort \in BOOLEAN : rec' = stopRecording(rec, tooShort)
    /\ UNCHANGED <<db, last, ops, scope, playback, vc, calc, shown, flight, fc>>

\* transcribeAndSend ends, with a transcript or an error: setState("idle").
Transcribed ==
    /\ scope = "recorder"
    /\ rec.state = "transcribing"
    /\ rec' = [rec EXCEPT !.state = "idle", !.event = "transcribed"]
    /\ UNCHANGED <<db, last, ops, scope, playback, vc, calc, shown, flight, fc>>

\* detectSearchType applied to the drawn term.
DetectSearchType ==
    /\ scope = "classifier"
    /\ calc.fn = "none"
    /\ calc' = [calc EXCEPT !.fn = "detectSearchType",
                            !.kind = detectSearchType(calc.search)]
    /\ UNCHANGED <<db, last, ops, scope, playback, voiceClient, shown, flight, fc>>

\* Clock readings of two calls, and the inputs previews are asked with.
Clock == {1, 2}

\* Between the reads and the writes of a confirmed call nothing compares
\* the row that was read with the row that is stored.
writeApplies_IfUnchanged(seen, stored) == seen \subseteq stored

writeApplies(seen, stored) == TRUE

\* The confirmed calls two conversations make: a payment of invoice 1, in
\* full or in part, and a new income record.
RaceCalls ==
    {[tool |-> "markInvoicePaid",
      in |-> [invoiceId |-> 1, invoiceNumber |-> 0, paymentAmount |-> pa,
              confirmed |-> TRUE, userId |-> "u1"]] : pa \in {{}, {60}}}
      \cup {[tool |-> "addIncome",
              in |-> [amount |-> 100, description |-> "d1", clientName |-> <<>>,
                      categoryName |-> <<>>, taxRate |-> {},
                      confirmed |-> TRUE, userId |-> "u1"]]}

RaceTool(tool, d, in) ==
    IF tool = "markInvoicePaid" THEN markInvoicePaid(d, in, 0)
    ELSE addIncome(d, in, 0)

\* The reads of a confirmed call, up to the first write: the call returns
\* here when its checks reject it.
HasRead(p, c, o) ==
    flight' = [flight EXCEPT ![p] =
                  IF o.db = db
                  THEN [phase |-> "done", tool |-> c.tool, in |-> c.in,
                        seen |-> {}, status |-> o.status]
                  ELSE [phase |-> "read", tool |-> c.tool, in |-> c.in,
                        seen |-> IF c.tool = "markInvoicePaid"
                                 THEN FindInvoice(db, getEffectiveUserId(c.in.userId),
                                                  c.in.invoiceId, c.in.invoiceNumber)
                                 ELSE {},
                        status |-> "none"]]

ConfirmRead ==
    /\ scope = "race"
    /\ \E p \in Callers, c \in RaceCalls :
          /\ flight[p].phase = "none"
          /\ HasRead(p, c, RaceTool(c.tool, db, c.in))
    /\ UNCHANGED <<db, last, ops, scope, playback, voiceClient, calc, shown, fc>>

\* The datastore as the call saw it: the stored rows with the invoice row
\* it read in place of the stored one.
AsSeen(d, seen) ==
    IF seen = {} THEN d
    ELSE [d EXCEPT !.invoices = UpdateById(@, The(seen).id, The(seen))]

HasWritten(p, o, applies) ==
    /\ db' = IF applies THEN o.db ELSE db
    /\ ops' = ops + 1
    /\ flight' = [flight EXCEPT ![p].phase = "done",
                                ![p].status = IF applies THEN o.status
                                              ELSE "conflict"]

\* The writes of a confirmed call, computed from what it read.
ConfirmWrite ==
    /\ scope = "race"
    /\ ops < MaxOps
    /\ \E p \in Callers :
          /\ flight[p].phase = "read"
          /\ HasWritten(p, RaceTool(flight[p].tool, AsSeen(db, flight[p].seen),
                                    flight[p].in),
                        writeApplies(flight[p].seen, db.invoices))
    /\ UNCHANGED <<last, scope, playback, voiceClient, calc, shown, fc>>

\* <<name, clientName, endDate>> of updateProject: nothing, the stored
\* values, and new ones; "bc" resolves to the client the project has.
UpdateProjectOptions ==
    {<<<<>>, <<>>, 0>>, <<<<"a", "b">>, <<>>, 2>>, <<<<"x">>, <<>>, 0>>,
     <<<<>>, <<>>, 3>>, <<<<>>, <<"b", "c">>, 0>>, <<<<"x">>, <<"z">>, 3>>}

UpdateProject ==
    /\ scope = "frame"
    /\ \E projectId \in {1, 2}, opt \in UpdateProjectOptions, now \in Clock,
          confirmed \in BOOLEAN, userId \in Users :
          \E fail \in FailModes(confirmed, 1) :
          LET in == [projectId |-> projectId, name |-> opt[1],
                     clientName |-> opt[2], endDate |-> opt[3], now |-> now,
                     confirmed |-> confirmed, userId |-> userId]
              found == {r \in db.projects : r.id = projectId /\ r.user_id = userId}
              supplied == IF found = {} THEN {}
                          ELSE Differs("name", opt[1], The(found).name, <<>>)
                            \cup Differs("end_date", opt[3], The(found).end_date, 0)
                            \cup (IF opt[2] # <<>> THEN {"client_id"} ELSE {})
          IN  Updated("updateProject", Flag(confirmed), userId, userId,
                      updateProject(db, in, fail), "projects", supplied,
                      {"updated_at"}, {})

PreviewInvoiceInputs ==
    {[clientId |-> 1, items |-> ItemLine, date |-> date, dueDate |-> "none",
      notes |-> "n1", makeRecurring |-> FALSE, frequency |-> "none",
      confirmed |-> FALSE, userId |-> "u1"] : date \in {0, 1}}

PreviewIncomeInputs ==
    {[amount |-> 100, description |-> "d1", clientName |-> name,
      categoryName |-> <<>>, taxRate |-> {}, date |-> date,
      confirmed |-> FALSE, userId |-> "u1"] :
        name \in {<<>>, <<"a", "b", "d">>}, date \in {0, 1}}

\* The last two previews handed out, each with the inputs it was asked
\* with, the clock reading, the outcome of the number RPC and the count of
\* datastore changes before it.
Shown(tool, in, now, rpcError, preview) ==
    shown' = (IF shown = <<>> THEN <<>> ELSE <<shown[Len(shown)]>>)
                \o <<[tool |-> tool, in |-> in, now |-> now,
                      rpcError |-> rpcError, version |-> ops,
                      preview |-> preview]>>

PreviewInvoice ==
    /\ scope = "preview"
    /\ \E in \in PreviewInvoiceInputs, now \in Clock, rpcError \in BOOLEAN :
          /\ Returned("createInvoice", "false", in.userId,
                      getEffectiveUserId(in.userId), createInvoice(db, in, 0),
                      "direct", {}, NoHttp)
          /\ Shown("createInvoice", in, now, rpcError,
                   createInvoicePreview(db, in, now, rpcError))

PreviewIncome ==
    /\ scope = "preview"
    /\ \E in \in PreviewIncomeInputs, now \in Clock :
          /\ Returned("addIncome", "false", in.userId, in.userId,
                      addIncome(db, in, 0), "direct", {}, NoHttp)
          /\ Shown("addIncome", in, now, FALSE, addIncomePreview(db, in, now))

\* The user confirms: the tool is called again with the inputs of the
\* preview shown last and confirmed=true.
ConfirmShown ==
    /\ scope = "preview"
    /\ shown # <<>>
    /\ LET e == shown[Len(shown)]
           in == [e.in EXCEPT !.confirmed = TRUE]
       IN  CallVia(e.tool, "true", in.userId, getEffectiveUserId(in.userId),
                   IF e.tool = "createInvoice" THEN createInvoice(db, in, 0)
                   ELSE addIncome(db, in, 0),
                   "direct", {}, NoHttp)

\* calculateLevenshteinScore / calculateMatchScore applied to the drawn pair.
CalculateMatchScore ==
    /\ scope = "matcher"
    /\ calc.fn = "none"
    /\ calc' = [calc EXCEPT !.fn = "calculateMatchScore",
                            !.score = calculateLevenshteinScore(calc.search,
                                                                calc.target)]
    /\ UNCHANGED <<db, last, ops, scope, playback, voiceClient, shown, flight, fc>>

\* levenshteinDistance applied to the drawn pair.
LevenshteinDistance ==
    /\ scope = "matcher"
    /\ calc.distance = -1
    /\ calc' = [calc EXCEPT
                   !.distance = levenshteinDistance(calc.search, calc.target)]
    /\ UNCHANGED <<db, last, ops, scope, playback, voiceClient, shown, flight, fc>>

\* z.enum(["pending", "in_progress", "completed", "paid"]).optional()
MilestoneStatuses == {"", "pending", "in_progress", "completed", "paid"}

CreateMilestone ==
    /\ scope = "milestone"
    /\ \E projectId \in {1, 2}, confirmed \in BOOLEAN, userId \in Users :
          \E fail \in FailModes(confirmed, 1) :
          Call("createMilestone", Flag(confirmed), userId, userId,
               createMilestone(db, [projectId |-> projectId, name |-> <<"n">>,
                                    confirmed |-> confirmed, userId |-> userId],
                               fail))

UpdateMilestone ==
    /\ scope = "milestone"
    /\ \E milestoneId \in {1, 2}, status \in MilestoneStatuses,
          name \in {<<>>, <<"x">>}, now \in Clock, confirmed \in BOOLEAN,
          userId \in Users :
          \E fail \in FailModes(confirmed, 1) :
          Call("updateMilestone", Flag(confirmed), userId, userId,
               updateMilestone(db, [milestoneId |-> milestoneId, name |-> name,
                                    status |-> status, now |-> now,
                                    confirmed |-> confirmed, userId |-> userId],
                               fail))

\* The result is handed back to the caller; the next call may start.
Respond ==
    /\ last # Idle
    /\ last' = Idle
    /\ UNCHANGED <<db, ops, scope, playback, voiceClient, calc, shown, flight, fc>>

Next ==
    \/ AddIncome
    \/ UpdateIncome
    \/ AddExpense
    \/ UpdateExpense
    \/ CreateInvoice
    \/ MarkInvoicePaid
    \/ UpdateInvoice
    \/ ToggleRecurring
    \/ UpdateRecurring
    \/ DeleteRecurring
    \/ SaveAsTemplate
    \/ UpdateTemplate
    \/ CreateFromTemplate
    \/ AddClient
    \/ UpdateClient
    \/ AddVendor
    \/ AddCategory
    \/ UpdateCategory
    \/ CreateProject
    \/ DeleteMilestone
    \/ DeleteGoal
    \/ DeleteTimeEntry
    \/ DeleteProjectNote
    \/ SearchClients
    \/ SearchVendors
    \/ SearchProjects
    \/ VoiceFunctionCall
    \/ HandleAudioData
    \/ UserStartedSpeaking
    \/ OnMessage
    \/ Process
    \/ ToggleConversation
    \/ StartStep
    \/ WsOpen
    \/ WsError
    \/ WsClose
    \/ StartRecording
    \/ RecorderStep
    \/ StopRecording
    \/ Transcribed
    \/ CalculateMatchScore
    \/ LevenshteinDistance
    \/ PreviewInvoice
    \/ PreviewIncome
    \/ ConfirmShown
    \/ UpdateProject
    \/ ConfirmRead
    \/ ConfirmWrite
    \/ DetectSearchType
    \/ FunctionCallRequest
    \/ FunctionFetchSettles
    \/ CreateMilestone
    \/ UpdateMilestone
    \/ Respond

Spec == Init /\ [][Next]_vars

\* The same machine with the steps the client itself has pending taken in
\* the end: an awaited call of startConversation or of handleFunctionCall
\* settles.  The user, the peer and the network owe no step.
FairSpec ==
    /\ Init
    /\ [][Next]_vars
    /\ WF_vars(StartStep)
    /\ WF_vars(FunctionFetchSettles)

---------------------------------------------------------------------------
(* Properties.  `last` is the record of the call that has just returned.   *)

C2_BlockedForBothTools ==
    "paid" \in last.pre => (last.status = "blocked" /\ ~last.changed)

\* C2 as the code has it: on a paid invoice, with confirmed true or false,
\* updateInvoice returns blocked and markInvoicePaid returns already_paid;
\* neither issues a write nor changes the datastore.
C2_PaidInvoiceImmutable ==
    "paid" \in last.pre =>
        /\ ~last.changed /\ last.writes = 0
        /\ last.status = IF last.tool = "updateInvoice" THEN "blocked"
                         ELSE "already_paid"

\* A confirmed updateInvoice with a new due date on a paid invoice.
C2_Witness ==
    /\ "paid" \in last.pre /\ last.tool = "updateInvoice"
    /\ last.confirmed = "true" /\ "same" \notin last.pre
    /\ last.status = "blocked"

\* C3: a tool run for an authenticated voice request runs with the
\* session's user id and touches that user's rows only, whatever userId the
\* request parameters carry.
C3_SessionIdentity ==
    (last.via = "voice" /\ last.http.code = 200 /\ last.tool \in Registry) =>
        /\ last.user = last.http.session
        /\ last.touched \subseteq {last.http.session}

\* A request carrying another user's id whose tool saved a row.
C3_Witness ==
    /\ last.via = "voice" /\ last.http.spoofed /\ last.http.code = 200
    /\ last.status = "saved" /\ last.changed

\* C4 as stated: every row a call reads into its result or writes belongs
\* to the calling user or to the effective owner.
C4_OwnRowsOnly == last.touched \subseteq {last.user, last.owner}

FlaglessWriters ==
    {"addClient", "addVendor", "addCategory", "updateCategory",
     "saveAsTemplate", "updateTemplate"}

C6_EmptyDiffIsNoChanges ==
    ("same" \in last.pre /\ "paid" \notin last.pre /\ last.confirmed = "true") =>
        (last.status = "no_changes" /\ last.writes = 0 /\ ~last.changed)

\* C7 as stated: every income and expense row has tax_amount equal to
\* amount * tax_rate / 100 and a total of amount plus that tax.
C7_TaxFollowsAmount ==
    \A r \in db.income \cup db.expenses :
        /\ r.tax_amount = TaxAmount(r.amount, r.tax_rate)
        /\ TotalWithTax(r) = r.amount + TaxAmount(r.amount, r.tax_rate)

C9_DispatchNeverThrows ==
    (last.via = "voice" /\ last.http.session # "none" /\ last.tool # "") =>
        /\ ~last.http.threw /\ last.http.code = 200
        /\ last.tool \notin Registry => last.http.outcome = "error"

\* The dispatched name resolved to an inherited key with no execute
\* function: the call threw inside the try block.
C9_Witness ==
    /\ last.via = "voice" /\ last.tool \in InheritedKeys
    /\ last.http.code = 200 /\ last.http.outcome = "error"

\* C10 as stated: a dispatched call with a non-positive amount or an end
\* date not after the start date is rejected before any datastore read or
\* write.
C10_RejectedBeforeDatastore ==
    (last.via = "voice" /\ last.http.code = 200 /\ "malformed" \in last.pre) =>
        /\ last.reads = 0 /\ last.writes = 0
        /\ last.status \notin {"preview", "saved", "success"}

IsPrefix(s, t) == Len(s) <= Len(t) /\ s = SubSeq(t, 1, Len(s))

\* C11: while no clear has been handled, after any interleaving of appends
\* and process calls (start threshold, underruns and compaction included)
\* the non-silence output is a prefix of the concatenation of the appended
\* samples: none lost, repeated or reordered.
C11_OutputIsPrefixOfAppended ==
    ~obs.cleared => IsPrefix(obs.played, obs.handled)

\* Playback has started, run dry and been compacted, and samples appended
\* after the compaction have been played.
C11_Witness ==
    /\ ~obs.cleared
    /\ obs.compacted
    /\ obs.underrun
    /\ Len(obs.played) > MIN_BUFFER_TO_START + 1
    /\ obs.played = obs.handled

Elements(s) == {s[i] : i \in 1..Len(s)}

\* A clear has been handled, then exactly one append, and process has since
\* been asked for as many frames as that append held.
ClearAppendRead ==
    /\ obs.cleared
    /\ obs.appends = 1
    /\ obs.requested = Len(obs.handled)

\* C12 as stated: clear, then one append of X, then reading len(X) samples
\* returns exactly X.
C12_ClearAppendReadReturnsX ==
    ClearAppendRead => obs.played = obs.handled

\* C12: clear, then one append of X, then reading len(X) samples returns
\* exactly X when X fills the pre-buffer and only silence when it does not;
\* in both cases no sample appended before the clear is returned.
C12_ClearAppendReadReturnsXOnceFilled ==
    /\ ClearAppendRead =>
           obs.played = IF Len(obs.handled) >= MIN_BUFFER_TO_START
                        THEN obs.handled ELSE <<>>
    /\ obs.cleared => Elements(obs.played) \subseteq Elements(obs.handled)

\* Samples were appended before the clear, and the one append after it has
\* been read back whole.
C12_Witness ==
    /\ ClearAppendRead
    /\ obs.barrier >= MIN_BUFFER_TO_START
    /\ Len(obs.handled) >= MIN_BUFFER_TO_START
    /\ obs.played = obs.handled

\* C13: for every interleaving of UserStartedSpeaking, binary audio frames
\* and render quanta, once the processor has handled the 'clear' no sample
\* the client posted before that 'clear' is written to the output.
C13_NoStaleAudioAfterClear ==
    obs.cleared => \A x \in Elements(obs.played) : x > obs.barrier

\* A 'clear' was posted behind samples still in flight, it has been handled,
\* and audio posted after it is playing.
C13_Witness ==
    /\ obs.raced
    /\ obs.cleared
    /\ obs.barrier > 0
    /\ obs.played # <<>>

\* C14: from construction, and again after every clear, the processor writes
\* only silence and consumes no sample until the unread sample count has
\* reached the start threshold.
C14_SilentUntilPrebuffered ==
    ~obs.filled => (obs.played = <<>> /\ player.readIndex = 0 /\ ~player.isPlaying)

\* After a clear that interrupted playback, samples are buffered below the
\* threshold and a render quantum has been asked for.
C14_Witness ==
    /\ ~obs.filled
    /\ obs.cleared
    /\ obs.barrier >= MIN_BUFFER_TO_START
    /\ obs.handled # <<>>
    /\ obs.requested > 0
    /\ Len(player.buffer) = Len(obs.handled)

\* Position of a resource in the order of release the cancellation rule
\* prescribes: socket, capture processor, microphone, rendering context.
ReleaseRank(k) ==
    CASE k = "ws" -> 1
      [] k = "processor" -> 2
      [] k = "worklet" -> 3
      [] k = "mediaStream" -> 4
      [] k = "audioContext" -> 5

ReleasedInOrder(released) ==
    \A i, j \in 1..Len(released) :
        i < j => ReleaseRank(released[i]) < ReleaseRank(released[j])

\* stopConversation has just run, from the button, onerror or onclose.
ConversationStopped == vc.event \in {"stopped", "socketError"}

\* C15: whenever stopConversation has ended a conversation, it has released
\* the socket, the capture processor, the microphone tracks and the
\* rendering context in that order, and no resource the conversation
\* acquired is still live.
C15_StopReleasesEverythingInOrder ==
    ConversationStopped =>
        /\ ReleasedInOrder(vc.released)
        /\ \A k \in Kinds : vc.res[k] # "live"
        /\ vc.orphans = {}

\* C16: when starting fails at any step (config fetch, microphone access,
\* rendering context, worklet load, socket creation; in the recorder:
\* permission denied, device not found, any other error) the component is
\* back in the idle state, no start is in progress, and only the user's
\* presses have started one.
C16_FailedStartIsIdleWithoutRetry ==
    /\ vc.event = "startFailed" =>
           (vc.state = "idle" /\ vc.pc = "none" /\ vc.attempts = vc.clicks)
    /\ rec.event = "startFailed" =>
           (rec.state = "idle" /\ rec.pc = "none" /\ rec.attempts = rec.clicks)
    /\ vc.event = "socketError" => vc.state = "idle"

\* The worklet failed to load after the microphone and the rendering
\* context had been acquired.
C16_Witness ==
    /\ vc.event = "startFailed"
    /\ vc.failedAt = "addModule"
    /\ vc.res["mediaStream"] = "live"
    /\ vc.state = "idle"

DeleteTools ==
    {"deleteMilestone", "deleteGoal", "deleteTimeEntry", "deleteProjectNote",
     "deleteRecurring"}

\* C17: every delete tool is soft: a delete that succeeds leaves the target
\* row in its table, marked with a tombstone time; it never removes the row.
C17_DeletesAreSoft ==
    (last.tool \in DeleteTools /\ last.status = "success" /\ last.changed) =>
        ("tombstoned" \in last.pre /\ "removed" \notin last.pre)

MutatingTools ==
    {"updateIncome", "updateExpense", "updateClient", "deleteMilestone",
     "deleteGoal", "deleteTimeEntry", "deleteProjectNote"}

\* C18: a mutating tool whose target does not exist, is soft-deleted or
\* belongs to another owner returns a not-found result and writes nothing;
\* so updateIncome / updateExpense on a soft-deleted record, and a second
\* delete of an already deleted milestone, goal, time entry or note, are
\* not applied.
C18_MissingTargetIsNotFound ==
    (last.tool \in MutatingTools
        /\ last.pre \cap {"absent", "deleted", "foreign"} # {}) =>
        (last.status \in {"not_found", "error"} /\ last.writes = 0 /\ ~last.changed)

CreationTools == {"addClient", "addVendor", "addCategory", "createProject"}

\* C19 as stated: a creation tool called with a name that equals, ignoring
\* case, the name of a live record of the same owner inserts nothing and
\* returns status exists.
C19_TakenNameReturnsExists ==
    (last.tool \in CreationTools /\ "taken" \in last.pre) =>
        (last.status = "exists" /\ last.writes = 0 /\ ~last.changed)

\* C19: with such a name no creation tool inserts; addClient and addVendor
\* return status exists with the existing record, addCategory does so when
\* the existing category has the requested type, and createProject returns
\* status error.
C19_TakenNameIsNotInserted ==
    /\ (last.tool \in CreationTools /\ "takenInKind" \in last.pre) =>
           /\ last.writes = 0 /\ ~last.changed
           /\ last.status = IF last.tool = "createProject" THEN "error" ELSE "exists"
           /\ last.touched = {last.user}
    /\ (last.tool \in {"addClient", "addVendor", "createProject"}
            /\ "taken" \in last.pre) => "takenInKind" \in last.pre

\* addClient was called with the name of an existing client written in
\* another case and answered exists.
C19_Witness ==
    /\ last.tool = "addClient"
    /\ "taken" \in last.pre
    /\ last.status = "exists"
    /\ \E c \in db.clients : c.user_id = last.user /\ ~c.deleted
                                /\ c.name = <<"A", "b", "c">>
    /\ \A c \in db.clients : c.name # <<"a", "b", "c">>

Resolvers == {"searchClients", "searchVendors", "searchProjects", "addIncome"}

\* C20: a resolver returns no suggestion with a score below 50, and a pool
\* whose scores are all below 50, or an empty pool, yields an empty
\* suggestion list with a success status, not an error.
C20_ResolverThreshold ==
    last.tool \in Resolvers =>
        /\ "belowThreshold" \notin last.pre
        /\ ("poolAllLow" \in last.pre /\ last.writes = 0) =>
               ("noSuggestions" \in last.pre /\ last.status \in {"success", "preview"})

\* searchClients scored the caller's clients, none reached 50, and it
\* answered success with no suggestion.
C20_Witness ==
    /\ last.tool = "searchClients"
    /\ "poolEmpty" \notin last.pre
    /\ {"poolAllLow", "noSuggestions"} \subseteq last.pre
    /\ last.status = "success"

\* C21: a tool takes a candidate as the matched entity, without asking the
\* user to confirm its identity, only when that candidate is the top
\* suggestion and scores at least 85; a best score in [50,85) is never
\* returned or persisted as the match.
C21_AutoMatchNeedsScore85 ==
    (last.tool \in Resolvers /\ "matched" \in last.pre) =>
        ("matchedUnder85" \notin last.pre /\ "matchedNotTop" \notin last.pre)

\* C22: for all strings a and b the match score is an integer between 0 and
\* 100, and the score of a string against itself is 100, the empty string
\* included.
C22_ScoreInRangeAndReflexive ==
    calc.fn = "calculateMatchScore" =>
        /\ calc.score \in 0..100
        /\ calc.search = calc.target => calc.score = 100

\* The empty string has been scored against itself.
C22_Witness ==
    /\ calc.fn = "calculateMatchScore"
    /\ calc.search = <<>>
    /\ calc.target = <<>>
    /\ calc.score = 100

\* C23: when one of the two strings contains the other, letter case
\* ignored, and the two are not equal, letter case ignored, the match score
\* is exactly 90, whatever their edit distance.
C23_ContainmentScores90 ==
    (/\ calc.fn = "calculateMatchScore"
     /\ toLowerCase(calc.search) # toLowerCase(calc.target)
     /\ \/ includes(toLowerCase(calc.target), toLowerCase(calc.search))
        \/ includes(toLowerCase(calc.search), toLowerCase(calc.target)))
        => calc.score = 90

\* "A" has been scored against "abb": contained once the case is folded, at
\* edit distance 2 of 3, which the distance formula would score 33.
C23_Witness ==
    /\ calc.fn = "calculateMatchScore"
    /\ calc.search = <<"A">>
    /\ calc.target = <<"a", "b", "b">>
    /\ levenshteinDistance(calc.search, calc.target) = 2
    /\ calc.score = 90

\* Two previews in a row of the same tool with identical inputs and no
\* change of the datastore between them.
SamePreviewTwice ==
    /\ Len(shown) = 2
    /\ shown[1].tool = shown[2].tool
    /\ shown[1].in = shown[2].in
    /\ shown[1].version = shown[2].version

C25_MissingItemsAreReported ==
    "headerWithoutItems" \in last.pre =>
        (last.changed /\ last.status # "success")

\* C26: no result returned by a tool contains the datastore's raw error
\* text: when an insert or update is rejected, the result carries only a
\* generic message.
C26_NoRawErrorInResult ==
    (last.status = "error" /\ last.writes > 0) => "rawError" \notin last.pre

UpdateTools ==
    {"updateIncome", "updateExpense", "updateClient", "updateInvoice",
     "updateRecurring", "updateProject"}

\* C27: a confirmed update changes only columns of the target for which a
\* value different from the stored one was supplied, and columns derived
\* from them (base_amount, updated_at); nothing else in the datastore
\* changes, and no column left out of the input is set to null.
C27_UpdateChangesOnlySuppliedFields ==
    (last.tool \in UpdateTools /\ last.confirmed = "true") =>
        "frameBroken" \notin last.pre

\* A confirmed updateIncome has changed the amount and, with it, the
\* derived base_amount, and nothing else.
C27_Witness ==
    /\ last.tool = "updateIncome"
    /\ last.confirmed = "true"
    /\ last.status = "success"
    /\ {"frameApplied", "frameDerived"} \subseteq last.pre
    /\ "frameBroken" \notin last.pre

\* Both conversations confirmed the same call with the same inputs, and
\* both got past the checks of the tool: a double-submitted confirm, or two
\* confirms that read the same balance.
DoubleConfirm ==
    /\ flight[1].phase = "done" /\ flight[2].phase = "done"
    /\ flight[1].tool = flight[2].tool
    /\ flight[1].in = flight[2].in
    /\ flight[1].seen = flight[2].seen
    /\ \A p \in Callers : flight[p].status \notin {"already_paid", "error", "not_found"}

\* C28: nothing ties an apply to a preview or serialises calls on one
\* entity: two confirmed calls of the same mutation, back to back or
\* concurrent (a double-submitted addIncome confirm, two markInvoicePaid
\* confirms computed against the same balance) are both applied, giving
\* two records or two payments.
C28_DoubleConfirmAppliesTwice ==
    DoubleConfirm =>
        /\ \A p \in Callers : flight[p].status \in {"success", "saved"}
        /\ flight[1].tool = "addIncome" =>
               Cardinality(db.income) = Cardinality(SeedIncome) + 2
        /\ flight[1].tool = "markInvoicePaid" =>
               Cardinality({q \in db.invoice_payments : q.invoice_id = 1}) = 2

\* Two confirms of the full payment of invoice 1 (total 120) that read the
\* same balance have left two payments of 120.
C28_Witness ==
    /\ DoubleConfirm
    /\ flight[1].tool = "markInvoicePaid"
    /\ flight[1].in.paymentAmount = {}
    /\ flight[1].seen # {}
    /\ \A p \in Callers : p \in {q.id : q \in db.invoice_payments}
    /\ \A q \in db.invoice_payments : q.amount = 120

PartySearches == {"searchClients", "searchVendors"}

\* C29: for a term classified as email or phone, searchClients and
\* searchVendors return only candidates whose field matches the term, and
\* score 100 a field equal to the term and 90 any other, for email and
\* phone alike.
C29_FieldMatchScores100Or90 ==
    (last.tool \in PartySearches /\ last.pre \cap {"byEmail", "byPhone"} # {}) =>
        last.pre \cap {"offField", "exactNot100", "partNot90"} = {}

\* C29 as the code has it: the rule holds for an email; a phone match
\* scores 90 whether the number equals the term or only contains it.
C29_EmailScores100Or90PhoneScores90 ==
    /\ (last.tool \in PartySearches /\ "byEmail" \in last.pre) =>
           last.pre \cap {"offField", "exactNot100", "partNot90"} = {}
    /\ (last.tool \in PartySearches /\ "byPhone" \in last.pre) =>
           /\ last.pre \cap {"offField", "partNot90"} = {}
           /\ "fieldExact" \in last.pre => "exactNot100" \in last.pre

\* A search by the stored phone number, formatting included, has returned
\* its client.
C29_Witness ==
    /\ last.tool = "searchClients"
    /\ {"byPhone", "fieldExact"} \subseteq last.pre
    /\ "noSuggestions" \notin last.pre

\* The term without whitespace, '+', '-' and parentheses.
Remainder(term) ==
    SelectSeq(term, LAMBDA ch : ch \notin {" ", "\t", "+", "-", "(", ")"})

Contains(term, ch) == \E i \in 1..Len(term) : term[i] = ch

\* C30: detectSearchType returns email exactly when the term contains both
\* '@' and '.'; otherwise phone exactly when the term without whitespace,
\* '+', '-' and parentheses has at least 7 characters, all of them digits;
\* otherwise name.  The email test comes first.
C30_DetectSearchType ==
    calc.fn = "detectSearchType" =>
        calc.kind =
            IF Contains(calc.search, "@") /\ Contains(calc.search, ".") THEN "email"
            ELSE IF /\ Len(Remainder(calc.search)) >= 7
                    /\ \A i \in 1..Len(Remainder(calc.search)) :
                           Remainder(calc.search)[i] \in Digits
                 THEN "phone"
                 ELSE "name"

\* "(0555555)", seven digits in parentheses, has been classified as a
\* phone number.
C30_Witness ==
    /\ calc.fn = "detectSearchType"
    /\ calc.search = <<"(">> \o DigitRun(7) \o <<")">>
    /\ calc.kind = "phone"

\* The strings one insertion, deletion or substitution of a single
\* character away from s, the characters taken from `alphabet`.
OneEdit(s, alphabet) ==
    {[i \in 1..(Len(s) + 1) |->
        IF i < k THEN s[i] ELSE IF i = k THEN c ELSE s[i - 1]] :
            k \in 1..(Len(s) + 1), c \in alphabet}
    \cup {[i \in 1..(Len(s) - 1) |-> IF i < k THEN s[i] ELSE s[i + 1]] :
            k \in 1..Len(s)}
    \cup {[s EXCEPT ![k] = c] : k \in 1..Len(s), c \in alphabet}

\* The least number of single-character edits that turn a string of
\* `reached` into t, counted from k: the unit-cost edit distance.
RECURSIVE EditSteps(_, _, _, _)
EditSteps(reached, t, alphabet, k) ==
    IF t \in reached THEN k
    ELSE EditSteps(reached \cup UNION {OneEdit(u, alphabet) : u \in reached},
                   t, alphabet, k + 1)

EditDistance(a, b) ==
    EditSteps({a}, b, {a[i] : i \in 1..Len(a)} \cup {b[i] : i \in 1..Len(b)}, 0)

\* n is an integer nearest to 100 * (maxLength - d) / maxLength, or 0 when
\* that quotient is negative.
NearestPercent(n, d, maxLength) ==
    IF d > maxLength THEN n = 0
    ELSE /\ 2 * (n * maxLength - 100 * (maxLength - d)) <= maxLength
         /\ 2 * (100 * (maxLength - d) - n * maxLength) <= maxLength

NeitherContains(a, b) ==
    /\ toLowerCase(a) # toLowerCase(b)
    /\ ~includes(toLowerCase(b), toLowerCase(a))
    /\ ~includes(toLowerCase(a), toLowerCase(b))

\* C31: for strings a and b of which neither equals nor contains the other,
\* letter case ignored, the match score is 100 * (1 - d / max(len a, len b))
\* rounded to the nearest integer and floored at 0, with d the unit-cost
\* edit distance of the lower-cased strings; and levenshteinDistance returns
\* that distance for all inputs.
C31_ScoreFollowsEditDistance ==
    /\ calc.distance # -1 =>
          calc.distance = EditDistance(toLowerCase(calc.search),
                                       toLowerCase(calc.target))
    /\ (calc.fn = "calculateMatchScore"
        /\ NeitherContains(calc.search, calc.target)) =>
          NearestPercent(calc.score,
                         EditDistance(toLowerCase(calc.search),
                                      toLowerCase(calc.target)),
                         Max2(Len(calc.search), Len(calc.target)))

\* "Ab" has been scored against "baa" and its distance taken: neither
\* contains the other, two edits of three characters, score 33.
C31_Witness ==
    /\ calc.fn = "calculateMatchScore"
    /\ calc.search = <<"A", "b">>
    /\ calc.target = <<"b", "a", "a">>
    /\ NeitherContains(calc.search, calc.target)
    /\ calc.distance = 2
    /\ calc.score = 33

\* C32: on receiving clear the playback processor discards every buffered
\* sample and is back in the pre-buffering state, with an empty buffer, the
\* read cursor at 0 and playback off; from then on every render callback
\* outputs silence until the unread count has again reached the start
\* threshold.
C32_ClearReturnsToPrebuffering ==
    /\ [][(port # <<>> /\ Head(port).clear /\ port' = Tail(port)) =>
              player' = [buffer |-> <<>>, readIndex |-> 0,
                         isPlaying |-> FALSE]]_vars
    /\ [][(obs.cleared /\ ~obs.filled) => obs'.played = <<>>]_vars

\* Playback had run far enough to be compacted, a clear was handled, and of
\* the samples appended since, fewer than the threshold, a render callback
\* has played none.
C32_Witness ==
    /\ obs.compacted
    /\ obs.cleared
    /\ ~obs.filled
    /\ obs.handled # <<>>
    /\ obs.requested > 0
    /\ obs.played = <<>>
    /\ ~player.isPlaying

\* A render quantum: the one step of the playback side that leaves the
\* port as it is.
RenderStep == port' = port /\ obs'.block # <<>> /\ <<player, obs>>' # <<player, obs>>

\* C39: once playback has started, a block that reaches the write position
\* is filled with silence from there on, and playback stays on until a
\* clear: the processor does not go back to buffering, and samples appended
\* after the underrun are played by the next render callback, however few
\* they are.
C39_UnderrunKeepsPlaying ==
    /\ [](obs.dry => player.isPlaying)
    /\ [][(RenderStep /\ player.isPlaying) =>
              /\ player'.isPlaying
              /\ \A i \in 1..Quantum :
                    obs'.block[i] =
                        IF player.readIndex + i <= Len(player.buffer)
                        THEN player.buffer[player.readIndex + i] ELSE 0]_vars

\* Playback ran dry, a single sample, fewer than the start threshold, was
\* appended afterwards, no clear was handled, and the sample has been played.
C39_Witness ==
    /\ obs.dry
    /\ ~obs.cleared
    /\ obs.late = 1
    /\ obs.late < MIN_BUFFER_TO_START
    /\ obs.played = obs.handled
    /\ player.isPlaying

\* The responses sent, and the sends attempted, for the entry with this id.
Responses(id) == {k \in 1..Len(fc.sent) : fc.sent[k].id = id}

SendAttempts(id) == {k \in 1..Len(fc.log) : fc.log[k].id = id}

\* Entry j of request t has been dealt with by the loop.
Handled(t, j) ==
    \/ fc.requests[t].pc = "done"
    \/ j < fc.requests[t].i
    \/ fc.requests[t].pc = "threw" /\ j = fc.requests[t].i

\* Responses and POSTs of one request follow the order of its entries.
InRequestOrder(ids) ==
    \A k, l \in 1..Len(ids) :
        (k < l /\ ids[k] \div 10 = ids[l] \div 10) => ids[k] < ids[l]

\* The response for an entry carries its id and name, and the result when
\* the arguments parsed and the POST answered 200, an error payload
\* otherwise.
AnswersEntry(response, func, code) ==
    /\ response.id = func.id
    /\ response.name = func.name
    /\ response.content =
           IF func.arguments = "json" /\ code = 200 THEN "result" ELSE "error"

StatusRank(status) ==
    CASE status = "pending" -> 1
      [] status = "in_progress" -> 2
      [] status = "completed" -> 3
      [] status = "paid" -> 4

\* C34: a milestone is created with status pending, and no call moves the
\* status of a milestone backward in the order pending, in_progress,
\* completed, paid, or to a value outside it.
C34_MilestoneStatusOnlyMovesForward ==
    [][\A m \in db'.project_milestones :
          IF RowsById(db.project_milestones, m.id) = {}
          THEN m.status = "pending"
          ELSE /\ m.status \in {"pending", "in_progress", "completed", "paid"}
               /\ \A old \in RowsById(db.project_milestones, m.id) :
                     StatusRank(old.status) <= StatusRank(m.status)]_vars

\* C35: whenever the voice agent's state is idle, no microphone stream,
\* socket, capture processor, playback worklet or audio context that a
\* conversation created is still open or referenced, a start that failed
\* part-way included.
C35_IdleHoldsNoResource ==
    vc.state = "idle" =>
        /\ vc.refs = {}
        /\ \A k \in Kinds : vc.res[k] # "live"

\* The socket of a conversation that had opened has closed or failed.
SocketLostWhileActive ==
    \/ vc.event = "socketClosed"
    \/ vc.event = "socketError" /\ vc.attempts = 1 /\ vc.res["processor"] # "none"

\* C36: when the socket closes or reports an error while a conversation is
\* active, the voice agent eventually is idle with the resources of the
\* conversation released.
C36_SocketLossLeadsToIdle ==
    SocketLostWhileActive ~>
        (/\ vc.state = "idle"
         /\ vc.refs = {}
         /\ \A k \in Kinds : vc.res[k] # "live")

\* No two rows of the table that are not deleted and belong to one owner
\* have names that are equal once the letter case is folded.
NamesUnique(table) ==
    \A r1, r2 \in table :
        (/\ r1.id # r2.id
         /\ r1.user_id = r2.user_id
         /\ ~r1.deleted /\ ~r2.deleted)
            => toLowerCase(r1.name) # toLowerCase(r2.name)

\* C37: after any sequence of addClient and confirmed updateClient calls no
\* two non-deleted clients of one owner have names equal ignoring case, and
\* the same holds for vendors and for categories.
C37_NamesStayUnique ==
    /\ NamesUnique(db.clients)
    /\ NamesUnique(db.vendors)
    /\ NamesUnique(db.categories)

\* The sum of the amounts of a set of payment rows.
RECURSIVE PaidSum(_)
PaidSum(rows) ==
    IF rows = {} THEN 0
    ELSE LET r == CHOOSE x \in rows : TRUE
         IN  r.amount + PaidSum(rows \ {r})

PaymentsOf(invoice) == {r \in db.invoice_payments : r.invoice_id = invoice.id}

\* C38: in a run of markInvoicePaid calls, one after the other, a payment
\* larger than the balance due is rejected and nothing is recorded; the
\* payments recorded for an invoice never add up to more than its total,
\* balance_due is never negative, and an invoice with payments is paid
\* exactly when its balance is 0 and partially_paid otherwise.
C38_PaymentsStayWithinTotal ==
    scope = "payments" =>
        /\ "exceeds" \in last.pre =>
               (last.status = "error" /\ last.writes = 0 /\ ~last.changed)
        /\ \A invoice \in db.invoices :
              /\ PaidSum(PaymentsOf(invoice)) <= invoice.total
              /\ invoice.balance_due >= 0
              /\ PaymentsOf(invoice) # {} =>
                     invoice.status = IF invoice.balance_due = 0 THEN "paid"
                                      ELSE "partially_paid"

=============================================================================
